---- MODULE Spec2Model ----
(***************************************************************************)
(* Model of es_pydantic: the bulk-write Session (model.py, helpers.py),    *)
(* the records it serialises and the document store it talks to.           *)
(*                                                                         *)
(* Spec         the raw Session operations: index, create, update,         *)
(*              delete, commit, __aenter__, __aexit__.                     *)
(* ModelSpec    the operations of Session.model on the caller's records,   *)
(*              with the caller's assignments to the records in between.   *)
(* ValidateSpec the operations that validate a record before they write    *)
(*              or buffer it: ESModel.save and those of Session.model.     *)
(* MapperSpec   ESModel.save, get and delete on the default index and on   *)
(*              an index named by the caller.                              *)
(* IndexSpec    ESModel._Index: setup, migrate and delete called by        *)
(*              concurrent tasks, one store call per step.                 *)
(* IndexSeqSpec the same calls made one after the other.                   *)
(* ReadSpec     ESModel.get next to the writes and deletes, single and     *)
(*              bulk, that create and remove documents.                    *)
(* WireSpec     to_es and from_es: records saved and read back, and hits   *)
(*              of every shape parsed.                                     *)
(* BulkSpec     ESModel.bulk_index and Session.model.bulk_index next to    *)
(*              the raw operations of the caller's session.                *)
(* RefreshSpec  the refresh argument of save, delete and commit on         *)
(*              sessions of every refresh policy.                          *)
(* DeclSpec     ESModelMeta: class statements and constructor calls.       *)
(***************************************************************************)
EXTENDS Integers, Sequences, FiniteSets, TLC

(* ------------------------------------------------------------------ *)
(* Bounds of the model                                                 *)
(* ------------------------------------------------------------------ *)
\* number of caller-side records (ESModel instances)
NumRecords == 2
\* number of enqueue calls made on the session in one behaviour
MaxOps == 3
\* number of enqueue calls made through Session.model in one behaviour
MaxModelOps == 2
\* number of identifiers a caller may choose for a document
NumUserIds == 1
\* largest chunk_size a caller passes to commit
MaxChunk == 2
\* number of tasks that call setup, migrate and delete concurrently
NumTasks == 2
\* number of setup, migrate and delete calls made in one behaviour
MaxCalls == 3
\* latest timestamp the clock reaches
MaxClock == 3
\* number of documents written through the alias
NumDocs == 1
\* number of versions of the record type's schema
NumSchemas == 2
\* number of instants a date field can hold
NumInstants == 2

(* ------------------------------------------------------------------ *)
(* Values                                                              *)
(* ------------------------------------------------------------------ *)
\* id = None (model.py:54, Field(default=None))
NoId == 0
UserIds == 1..NumUserIds
\* identifiers generated by the store are fresh: never a caller's id
GenBase == NumUserIds
Records == 1..NumRecords
\* the four operation kinds of a session (model.py:368-394)
Kinds == {"index", "create", "update", "delete"}
\* the record type's logical index (Meta.index)
MetaIndex == "shirts"
Indices == {MetaIndex}
\* values of the validated field; "green" fails the validator
Colors == {"black", "red", "green"}
\* the colour a record is constructed with
InitColor(r) == IF r % 2 = 1 THEN "red" ELSE "black"
\* the colours the validator accepts (tests/__init__.py:26)
ValidColors == {"black", "red"}
\* the Python values a caller can give the date field: a datetime, a
\* string or an int (epoch milliseconds), each standing for the instant `at`
Timestamp(py, at) == [py |-> py, at |-> at]
\* a string that is no date
BadTimestamp == Timestamp("str", 0)
Timestamps ==
    {Timestamp(py, at) : py \in {"datetime", "str", "int"},
                         at \in 1..NumInstants} \cup {BadTimestamp}
\* the date a record is constructed with
InitTimestamp == Timestamp("datetime", 1)
\* the date of no record
NoTimestamp == Timestamp("none", 0)
\* a delete action carries no _source
NoBody == [color |-> "-", timestamp |-> NoTimestamp]
\* chunk_size=None
NoChunk == 0
\* default chunk_size of the streaming bulk helper
DefaultChunkSize == 500
\* an index named by save(index=...) instead of Meta.index
CustomIndex == "custom"
\* index=None: the index argument is left out
Omitted == "None"
\* the values of a refresh argument: None, True and False
RefreshArgs == {"None", "True", "False"}
\* no template is registered under the logical name
NoTemplate == 0
\* next_index before migrate has computed it
NoIndex == 0
Tasks == 1..NumTasks
Docs == 1..NumDocs
Schemas == 1..NumSchemas

VARIABLES
    actions,    \* Session.actions: kind -> list of buffered actions
    kindOrder,  \* key order of the Session.actions dict
    results,    \* Session.results
    records,    \* the caller's ESModel instances: [id, color, timestamp]
    store,      \* documents held by the store: set of [idx, id, body]
    nextGen,    \* number of identifiers the store has generated
    nextUid,    \* number of enqueue calls made so far
    enq,        \* per kind: enqueue calls since the buffer was last cleared
    submitted,  \* uids of the actions sent to the store so far
    ret,        \* outcome of the last operation
    tmpl,       \* index template registered under the logical name
    schema,     \* version of the record type's schema and settings
    phys,       \* the physical indices that exist (by timestamp)
    held,       \* documents of the physical indices: <<index, doc>>
    alias,      \* the physical indices the alias is bound to
    clock,      \* the last timestamp read from the clock
    pc,         \* per task: the store call it is about to issue
    loc,        \* per task: arguments, locals and outcome of its call
    ncalls,     \* number of calls made on Model.index so far
    policy,     \* Session._refresh: the refresh the session was created with
    classes,    \* the record types that have been declared
    stale       \* uids of the mutations that were buffered at a scope entry

indexVars == <<tmpl, schema, phys, held, alias, clock, pc, loc, ncalls>>

vars == <<actions, kindOrder, results, records, store, nextGen, nextUid,
          enq, submitted, ret, indexVars, policy, classes, stale>>

\* what the operations on a session's buffer and on records leave alone
otherVars == <<indexVars, policy, classes, stale>>

sessionVars == <<actions, kindOrder, enq>>
storeVars == <<store, nextGen, submitted>>

EmptyMap == [k \in Kinds |-> <<>>]

\* a record that stands for no record
NoRecord == [id |-> NoId, color |-> "-", timestamp |-> NoTimestamp]

\* a class statement deriving from ESModel: what its body says about Meta
\* (no Meta of its own; a Meta without `index`; a Meta deriving its index
\* from another Meta; a Meta with index = ""; a Meta with an index name) and
\* about Config (no Config of its own; a Config without `abstract`;
\* abstract = True; abstract = False)
MetaDecls == {"absent", "noindex", "inherited", "empty", "index"}
ConfigDecls == {"absent", "noattr", "abstract", "concrete"}
Declarations == [meta : MetaDecls, config : ConfigDecls]
NoDecl == [meta |-> "none", config |-> "none"]

\* outcome of the last operation: what it returned (val, out, rec) or raised
\* (status, errors), the number of requests it sent to the store (calls),
\* the index argument it was given (arg), the index it addressed (idx), the
\* refresh parameter of its requests (refresh), the refresh argument it was
\* given (asked), the declaration it was about (decl), and for a commit the
\* buffered actions (acts), the uids sent (sent) and the store's answers
\* (items)
Ret(op, status, val, calls, out, errors) ==
    [op |-> op, status |-> status, val |-> val, calls |-> calls,
     out |-> out, errors |-> errors, args |-> <<>>,
     acts |-> <<>>, items |-> <<>>, sent |-> <<>>,
     idx |-> MetaIndex, rec |-> NoRecord, arg |-> Omitted,
     asked |-> "none", refresh |-> "none", decl |-> NoDecl]

\* the locals of a task that has made no call yet: the call and its
\* arguments, what its checks answered (sawTpl, sawIdx), next_index (next),
\* the alias binding when the call started (before), what get_alias
\* answered (resolved), the deletes in flight (pending), how the call ended
\* (status), the store calls it issued (trace), the documents its reindex
\* read through the alias (copied) and the index name it returned
\* (returned)
NoCall ==
    [op |-> "none", move |-> FALSE, upd |-> FALSE, force |-> FALSE,
     sawTpl |-> FALSE, sawIdx |-> FALSE, next |-> NoIndex, before |-> {},
     resolved |-> {}, pending |-> {}, status |-> "none", trace |-> <<>>,
     copied |-> {}, returned |-> NoIndex]

Init ==
    /\ actions = EmptyMap
    /\ kindOrder = <<>>
    /\ results = EmptyMap
    /\ records = [r \in Records |->
                     [id |-> NoId, color |-> InitColor(r),
                      timestamp |-> InitTimestamp]]
    /\ store = {}
    /\ nextGen = 0
    /\ nextUid = 0
    /\ enq = [k \in Kinds |-> 0]
    /\ submitted = {}
    /\ ret = Ret("init", "ok", -1, 0, EmptyMap, EmptyMap)
    /\ tmpl = NoTemplate
    /\ schema = 1
    /\ phys = {}
    /\ held = {}
    /\ alias = {}
    /\ clock = 0
    /\ pc = [t \in Tasks |-> "idle"]
    /\ loc = [t \in Tasks |-> NoCall]
    /\ ncalls = 0
    /\ policy = "False"
    /\ classes = {}
    /\ stale = {}

(* ------------------------------------------------------------------ *)
(* Session: enqueueing                                                 *)
(* ------------------------------------------------------------------ *)
\* Session._action: the list of kind `name` after the append
ActionAppend(acts, name, action) ==
    [acts EXCEPT ![name] = Append(@, action)]

\* a position counted over the whole buffer instead of the kind's bucket
ActionPosGlobal(acts, name) ==
    Len(acts["index"]) + Len(acts["create"]) + Len(acts["update"])
      + Len(acts["delete"]) - 1

\* Session._action: the value returned, len(self.actions[name]) - 1
ActionPos(acts, name) == Len(acts[name]) - 1

\* dict key order: a kind is added at its first append
OrderAppend(order, name) ==
    IF \E i \in 1..Len(order) : order[i] = name THEN order
    ELSE Append(order, name)

\* the request dict built by Session.index/create/update/delete, with the
\* identity of the enqueue call (uid) and the position it returned (pos)
Request(kind, idx, id, body, uid, pos) ==
    [kind |-> kind, idx |-> idx, id |-> id, body |-> body,
     uid |-> uid, pos |-> pos]

\* an operation that raises before it changes anything
Raise(op, status, args) ==
    /\ ret' = [Ret(op, status, -1, 0, EmptyMap, EmptyMap)
                 EXCEPT !.args = args]
    /\ UNCHANGED <<sessionVars, results, records, storeVars, nextUid,
                   otherVars>>

\* one call of Session.index/create/update/delete
Enqueue(kind, idx, id, body, op, args, budget) ==
    /\ nextUid < budget
    /\ LET uid == nextUid + 1
           appended == ActionAppend(actions, kind,
                           Request(kind, idx, id, body, uid, -1))
           pos == ActionPos(appended, kind)
       IN /\ actions' = ActionAppend(actions, kind,
                            Request(kind, idx, id, body, uid, pos))
          /\ kindOrder' = OrderAppend(kindOrder, kind)
          /\ ret' = [Ret(op, "ok", pos, 0, EmptyMap, EmptyMap)
                       EXCEPT !.args = args]
    /\ nextUid' = nextUid + 1
    /\ enq' = [enq EXCEPT ![kind] = @ + 1]
    /\ UNCHANGED <<results, records, storeVars, otherVars>>

\* the body of a raw request
RawBodies == {[color |-> "black", timestamp |-> Timestamp("str", 1)]}

\* Session.index(body, index)
SessionIndex(body, idx) ==
    Enqueue("index", idx, NoId, body, "Session.index", <<>>, MaxOps)

\* a create that writes the document at once, and buffers it too
SessionCreateWriteThrough(body, id, idx) ==
    /\ nextUid < MaxOps
    /\ LET pos == Len(actions["create"])
           a == Request("create", idx, id, body, nextUid + 1, pos)
       IN /\ actions' = ActionAppend(actions, "create", a)
          /\ kindOrder' = OrderAppend(kindOrder, "create")
          /\ ret' = [Ret("Session.create", "ok", pos, 1, EmptyMap, EmptyMap)
                       EXCEPT !.args = <<id>>]
          /\ store' = store \cup {[idx |-> idx, id |-> id, body |-> body]}
    /\ nextUid' = nextUid + 1
    /\ enq' = [enq EXCEPT !["create"] = @ + 1]
    /\ UNCHANGED <<results, records, nextGen, submitted, otherVars>>

\* Session.create(body, _id, index)
SessionCreate(body, id, idx) ==
    Enqueue("create", idx, id, body, "Session.create", <<id>>, MaxOps)

\* Session.update(body, _id, index)
SessionUpdate(body, id, idx) ==
    Enqueue("update", idx, id, body, "Session.update", <<id>>, MaxOps)

\* a delete that refuses a missing id
SessionDeleteChecked(id, idx) ==
    IF id = NoId THEN Raise("Session.delete", "MissingId", <<id>>)
    ELSE Enqueue("delete", idx, id, NoBody, "Session.delete", <<id>>,
                 MaxOps)

\* Session.delete(_id, index)
SessionDelete(id, idx) ==
    Enqueue("delete", idx, id, NoBody, "Session.delete", <<id>>, MaxOps)

(* ------------------------------------------------------------------ *)
(* Records: validation and serialisation                               *)
(* ------------------------------------------------------------------ *)
\* DateTime.validate: a datetime is kept, a string is parsed, an int is
\* read as epoch milliseconds; anything else is refused
DateTimeValidate(v) ==
    CASE v.py = "datetime" -> [ok |-> TRUE, val |-> v]
      [] v.py = "str" /\ v.at /= 0 ->
             [ok |-> TRUE, val |-> Timestamp("datetime", v.at)]
      [] v.py = "int" -> [ok |-> TRUE, val |-> Timestamp("datetime", v.at)]
      [] OTHER -> [ok |-> FALSE, val |-> v]

\* cls(**values): the validators run on every field and the record holds
\* what they return
Construct(values) ==
    [ok |-> values.color \in ValidColors
              /\ DateTimeValidate(values.timestamp).ok,
     val |-> [id |-> NoId, color |-> values.color,
              timestamp |-> DateTimeValidate(values.timestamp).val]]

\* ESModel.validate_model: type(self)(**self.dict()) runs the validators on
\* a copy, which is dropped
ValidateModel(rec) == Construct(rec).ok

\* datetime.isoformat()
IsoFormat(v) == Timestamp("str", v.at)

\* ESModel.to_es: the field map without the identifier, a datetime encoded
\* as its ISO string and every other value as it is (the client's JSON
\* serializer does the same to the doc of save)
ToEs(rec) ==
    [color |-> rec.color,
     timestamp |-> IF rec.timestamp.py = "datetime"
                   THEN IsoFormat(rec.timestamp) ELSE rec.timestamp]

\* ESModel.from_es on a hit that has a valid _source and an _id:
\* model = cls(**source); model.id = _id
FromEs(d) == [Construct(d.body).val EXCEPT !.id = d.id]

\* the empty mapping
EmptyHit == [empty |-> TRUE, source |-> FALSE, id |-> NoId, body |-> NoBody]

\* a mapping with an _id (or none: NoId) and a _source (or none: NoBody)
HitOf(id, body) ==
    [empty |-> FALSE, source |-> body /= NoBody, id |-> id, body |-> body]

\* a from_es that hands out the source as it is, without the validators
FromEsUnvalidated(h) ==
    IF h.empty THEN [status |-> "ok", val |-> NoRecord]
    ELSE IF ~h.source \/ h.id = NoId
    THEN [status |-> "InvalidElasticsearchResponse", val |-> NoRecord]
    ELSE [status |-> "ok",
          val |-> [id |-> h.id, color |-> h.body.color,
                   timestamp |-> h.body.timestamp]]

\* ESModel.from_es(data): None for an empty mapping, an error when _source
\* or _id is missing or empty, else the record cls(**source) with id = _id;
\* cls(**source) raises ValidationError on a source the validators refuse
FromEsHit(h) ==
    IF h.empty THEN [status |-> "ok", val |-> NoRecord]
    ELSE IF ~h.source \/ h.id = NoId
    THEN [status |-> "InvalidElasticsearchResponse", val |-> NoRecord]
    ELSE IF ~Construct(h.body).ok
    THEN [status |-> "ValidationError", val |-> NoRecord]
    ELSE [status |-> "ok", val |-> FromEs(h)]

\* the caller assigns a field of a record (no validation on assignment)
SetColor(r, c) ==
    /\ records[r].color /= c
    /\ records' = [records EXCEPT ![r].color = c]
    /\ ret' = Ret("setattr", "ok", -1, 0, EmptyMap, EmptyMap)
    /\ UNCHANGED <<sessionVars, results, storeVars, nextUid, otherVars>>

\* the caller assigns the date field of a record
SetTimestamp(r, v) ==
    /\ records[r].timestamp /= v
    /\ records' = [records EXCEPT ![r].timestamp = v]
    /\ ret' = Ret("setattr", "ok", -1, 0, EmptyMap, EmptyMap)
    /\ UNCHANGED <<sessionVars, results, storeVars, nextUid, otherVars>>

\* the caller assigns the id of a record
SetId(r, id) ==
    /\ records[r].id /= id
    /\ records' = [records EXCEPT ![r].id = id]
    /\ ret' = Ret("setattr", "ok", -1, 0, EmptyMap, EmptyMap)
    /\ UNCHANGED <<sessionVars, results, storeVars, nextUid, otherVars>>

(* ------------------------------------------------------------------ *)
(* Session.SessionModel: enqueueing records                            *)
(* ------------------------------------------------------------------ *)
\* SessionModel.index(model)
ModelIndex(r) ==
    IF ~ValidateModel(records[r])
    THEN Raise("model.index", "ValidationError", <<r>>)
    ELSE Enqueue("index", MetaIndex, NoId, ToEs(records[r]), "model.index",
                 <<r>>, MaxModelOps)

\* an update that serialises the record without looking at its id
ModelUpdateUnchecked(r) ==
    IF ~ValidateModel(records[r])
    THEN Raise("model.update", "ValidationError", <<r>>)
    ELSE Enqueue("update", MetaIndex, records[r].id, ToEs(records[r]),
                 "model.update", <<r>>, MaxModelOps)

\* SessionModel.update(model)
ModelUpdate(r) ==
    IF records[r].id = NoId
    THEN Raise("model.update", "MissingId", <<r>>)
    ELSE IF ~ValidateModel(records[r])
    THEN Raise("model.update", "ValidationError", <<r>>)
    ELSE Enqueue("update", MetaIndex, records[r].id, ToEs(records[r]),
                 "model.update", <<r>>, MaxModelOps)

\* SessionModel.delete(model)
ModelDelete(r) ==
    IF records[r].id = NoId
    THEN Raise("model.delete", "MissingId", <<r>>)
    ELSE IF ~ValidateModel(records[r])
    THEN Raise("model.delete", "ValidationError", <<r>>)
    ELSE Enqueue("delete", MetaIndex, records[r].id, NoBody,
                 "model.delete", <<r>>, MaxModelOps)

\* SessionModel.create(model)
ModelCreate(r) ==
    IF records[r].id = NoId
    THEN Raise("model.create", "MissingId", <<r>>)
    ELSE IF ~ValidateModel(records[r])
    THEN Raise("model.create", "ValidationError", <<r>>)
    ELSE Enqueue("create", MetaIndex, records[r].id, ToEs(records[r]),
                 "model.create", <<r>>, MaxModelOps)

(* ------------------------------------------------------------------ *)
(* The document store: one bulk request                                *)
(* ------------------------------------------------------------------ *)
Has(st, idx, id) == \E d \in st : d.idx = idx /\ d.id = id

Without(st, idx, id) == {d \in st : ~(d.idx = idx /\ d.id = id)}

\* the answer of the store for one action of a bulk request
Item(a, id, status) ==
    [uid |-> a.uid, kind |-> a.kind, idx |-> a.idx, id |-> id,
     status |-> status, ok |-> (200 <= status /\ status < 300)]

\* the document client.get answers with
Hit(st, idx, id) == CHOOSE d \in st : d.idx = idx /\ d.id = id

\* ESModel.get(_id, index): from_es of the hit, or NotFoundError
GetDoc(st, id, idx) ==
    IF Has(st, idx, id)
    THEN FromEsHit(HitOf(id, Hit(st, idx, id).body))
    ELSE [status |-> "NotFoundError", val |-> NoRecord]

\* the store applies one action: index creates a document under a fresh
\* id, create fails with 409 on an existing id, update and delete fail
\* with 404 on a missing one
StoreOp(st, gen, a) ==
    CASE a.kind = "index" ->
           [store |-> st \cup {[idx |-> a.idx, id |-> GenBase + gen + 1,
                                body |-> a.body]},
            gen |-> gen + 1, item |-> Item(a, GenBase + gen + 1, 201)]
      [] a.kind = "create" ->
           IF Has(st, a.idx, a.id)
           THEN [store |-> st, gen |-> gen, item |-> Item(a, a.id, 409)]
           ELSE [store |-> st \cup {[idx |-> a.idx, id |-> a.id,
                                     body |-> a.body]},
                 gen |-> gen, item |-> Item(a, a.id, 201)]
      [] a.kind = "update" ->
           IF Has(st, a.idx, a.id)
           THEN [store |-> Without(st, a.idx, a.id)
                             \cup {[idx |-> a.idx, id |-> a.id,
                                    body |-> a.body]},
                 gen |-> gen, item |-> Item(a, a.id, 200)]
           ELSE [store |-> st, gen |-> gen, item |-> Item(a, a.id, 404)]
      [] a.kind = "delete" ->
           IF Has(st, a.idx, a.id)
           THEN [store |-> Without(st, a.idx, a.id), gen |-> gen,
                 item |-> Item(a, a.id, 200)]
           ELSE [store |-> st, gen |-> gen, item |-> Item(a, a.id, 404)]

\* the store applies the actions of one request in order and answers with
\* one item per action, in request order
RECURSIVE StoreBulk(_, _, _)
StoreBulk(st, gen, chunk) ==
    IF chunk = <<>> THEN [store |-> st, gen |-> gen, items |-> <<>>]
    ELSE LET one == StoreOp(st, gen, Head(chunk))
             rest == StoreBulk(one.store, one.gen, Tail(chunk))
         IN [store |-> rest.store, gen |-> rest.gen,
             items |-> <<one.item>> \o rest.items]

\* the store rejects a whole request (400) that holds an update or a
\* delete without an id
RequestRejected(chunk) ==
    \E i \in 1..Len(chunk) :
        chunk[i].kind \in {"update", "delete"} /\ chunk[i].id = NoId

(* ------------------------------------------------------------------ *)
(* helpers.async_bulk over the streaming bulk helper                   *)
(* ------------------------------------------------------------------ *)
\* Session.commit: 'raise_on_error': False
RaiseOnErrorKwarg == FALSE

\* default of raise_on_error in the streaming bulk helper
RaiseOnErrorDefault == TRUE

\* Session.commit: kwargs = {k: v for k, v in kwargs.items() if v}
Kept(v) == v \notin {FALSE}

\* the raise_on_error the streaming helper runs with
RaiseOnError ==
    IF Kept(RaiseOnErrorKwarg) THEN RaiseOnErrorKwarg
    ELSE RaiseOnErrorDefault

\* the chunk size the streaming helper runs with: chunk_size=None (or 0)
\* is dropped from the kwargs
ChunkSize(c) == IF c /= NoChunk THEN c ELSE DefaultChunkSize

\* the actions in the order of their enqueue calls
RECURSIVE InUidOrder(_)
InUidOrder(S) ==
    IF S = {} THEN <<>>
    ELSE LET m == CHOOSE a \in S : \A b \in S : a.uid <= b.uid
         IN <<m>> \o InUidOrder(S \ {m})

\* a commit that sends the buffer in global enqueue order
ChainEnqueued(acts, order) ==
    InUidOrder(UNION {{acts[k][i] : i \in 1..Len(acts[k])} : k \in Kinds})

\* itertools.chain(*self.actions.values())
RECURSIVE Chain(_, _)
Chain(acts, order) ==
    IF order = <<>> THEN <<>>
    ELSE acts[Head(order)] \o Chain(acts, Tail(order))

Failed(items) == SelectSeq(items, LAMBDA it : ~it.ok)

\* results collected newest first instead of in answer order
RECURSIVE CollectIdsPrepend(_, _)
CollectIdsPrepend(map, items) ==
    IF items = <<>> THEN map
    ELSE CollectIdsPrepend(IF Head(items).ok
                           THEN [map EXCEPT ![Head(items).kind] =
                                     <<Head(items).id>> \o @]
                           ELSE map, Tail(items))

\* async_bulk: results[action].append(item[action]['_id']) for ok items
RECURSIVE CollectIds(_, _)
CollectIds(map, items) ==
    IF items = <<>> THEN map
    ELSE CollectIds(IF Head(items).ok
                    THEN [map EXCEPT ![Head(items).kind] =
                              Append(@, Head(items).id)]
                    ELSE map, Tail(items))

\* async_bulk: errors[action].append(item[action]) for failed items
RECURSIVE CollectErrors(_, _)
CollectErrors(map, items) ==
    IF items = <<>> THEN map
    ELSE CollectErrors(IF ~Head(items).ok
                       THEN [map EXCEPT ![Head(items).kind] =
                                 Append(@, Head(items))]
                       ELSE map, Tail(items))

\* the errors async_bulk records for one chunk: with raise_on_error the
\* helper raises BulkIndexError at the end of the chunk and async_bulk keeps
\* e.errors[0]; without it every failed item is yielded
ChunkErrors(map, items, roe) ==
    IF roe
    THEN IF Failed(items) = <<>> THEN map
         ELSE [map EXCEPT ![Head(Failed(items)).kind] =
                   Append(@, Head(Failed(items)))]
    ELSE CollectErrors(map, items)

Uids(chunk) == [i \in 1..Len(chunk) |-> chunk[i].uid]

Range(q) == {q[i] : i \in 1..Len(q)}

Min(a, b) == IF a < b THEN a ELSE b

\* async_bulk: the loop over the streaming helper, one request per chunk.
\* s accumulates the store, the results, the errors and what was sent;
\* failAt is the request on which the transport raises (0: none)
RECURSIVE AsyncBulk(_, _, _, _, _)
AsyncBulk(rest, s, size, failAt, roe) ==
    IF rest = <<>> THEN s
    ELSE LET n == Min(size, Len(rest))
             chunk == SubSeq(rest, 1, n)
             tail == SubSeq(rest, n + 1, Len(rest))
             sent == [s EXCEPT !.calls = @ + 1,
                               !.sent = @ \o Uids(chunk)]
         IN IF sent.calls = failAt \/ RequestRejected(chunk)
            THEN [sent EXCEPT !.exc = "ApiError"]
            ELSE LET b == StoreBulk(s.store, s.gen, chunk)
                     next == [sent EXCEPT
                                !.store = b.store,
                                !.gen = b.gen,
                                !.items = @ \o b.items,
                                !.results = CollectIds(@, b.items),
                                !.errors = ChunkErrors(@, b.items, roe)]
                 IN IF roe /\ Failed(b.items) /= <<>>
                    THEN next
                    ELSE AsyncBulk(tail, next, size, failAt, roe)

BulkStart(st, gen) ==
    [store |-> st, gen |-> gen, results |-> EmptyMap, errors |-> EmptyMap,
     items |-> <<>>, sent |-> <<>>, calls |-> 0, exc |-> "none"]

NumChunks(len, size) == (len + size - 1) \div size

(* ------------------------------------------------------------------ *)
(* Session: scope and commit                                           *)
(* ------------------------------------------------------------------ *)
\* the uids of the mutations a session holds
Buffered == Range(Uids(Chain(actions, kindOrder)))

\* a scope entry that leaves the buffer as it is
EnterKeeps ==
    /\ stale' = stale \cup Buffered
    /\ ret' = Ret("enter", "ok", -1, 0, EmptyMap, EmptyMap)
    /\ UNCHANGED <<sessionVars, results, records, storeVars, nextUid,
                   indexVars, policy, classes>>

\* Session.__aenter__: self.actions.clear()
Enter ==
    /\ actions' = EmptyMap
    /\ kindOrder' = <<>>
    /\ enq' = [k \in Kinds |-> 0]
    /\ stale' = stale \cup Buffered
    /\ ret' = Ret("enter", "ok", -1, 0, EmptyMap, EmptyMap)
    /\ UNCHANGED <<results, records, storeVars, nextUid, indexVars,
                   policy, classes>>

\* an exit that empties the buffer
ExitDiscards ==
    /\ actions' = EmptyMap
    /\ kindOrder' = <<>>
    /\ enq' = [k \in Kinds |-> 0]
    /\ ret' = [Ret("exit", "ok", -1, 0, EmptyMap, EmptyMap)
                 EXCEPT !.acts = Chain(actions, kindOrder)]
    /\ UNCHANGED <<results, records, storeVars, nextUid, otherVars>>

\* Session.__aexit__: returns None whether or not an exception is passed in;
\* acts records what was buffered when the scope was left
Exit ==
    /\ ret' = [Ret("exit", "ok", -1, 0, EmptyMap, EmptyMap)
                 EXCEPT !.acts = Chain(actions, kindOrder)]
    /\ UNCHANGED <<sessionVars, results, records, storeVars, nextUid,
                   otherVars>>

\* a commit without the emptiness check
BufferNeverEmpty(order) == FALSE

\* Session.commit: if not self.actions
BufferEmpty(order) == order = <<>>

\* a commit whose request is undone as a whole when an action failed
CommitRunAtomic(acts, order, st, gen, chunk, failAt) ==
    LET s == AsyncBulk(Chain(acts, order), BulkStart(st, gen),
                       ChunkSize(chunk), failAt, RaiseOnError)
    IN IF Chain(acts, order) = <<>>
       THEN [BulkStart(st, gen) EXCEPT !.exc = "TypeError"]
       ELSE IF s.errors /= EmptyMap THEN [s EXCEPT !.store = st]
       ELSE s

\* Session.commit past the emptiness check: an empty 'actions' list is
\* dropped from the kwargs like every falsy value, and async_bulk then
\* fails on its missing argument
CommitRun(acts, order, st, gen, chunk, failAt) ==
    IF Chain(acts, order) = <<>>
    THEN [BulkStart(st, gen) EXCEPT !.exc = "TypeError"]
    ELSE AsyncBulk(Chain(acts, order), BulkStart(st, gen), ChunkSize(chunk),
                   failAt, RaiseOnError)

\* what an operation that ran a commit returned or raised
CommitRet(op, status, s, flat, ms) ==
    [Ret(op, status, -1, s.calls,
         IF status \in {"ok", "KeyError", "IndexError", "ValueError"}
         THEN s.results ELSE EmptyMap,
         IF status = "SessionError" THEN s.errors ELSE EmptyMap)
       EXCEPT !.args = ms, !.acts = flat, !.items = s.items,
              !.sent = s.sent]

\* a commit that leaves the buffer as it was
NotCleared(acts) == acts

\* the buffer after Session.commit: finally: self.actions.clear()
Cleared(acts) == EmptyMap

\* helpers.refresh_keyword: "wait_for" if r is None else str(r).lower()
RefreshKeyword(r) ==
    CASE r = "None" -> "wait_for"
      [] r = "True" -> "true"
      [] r = "False" -> "false"

\* Session.commit: refresh or self._refresh
PyOr(a, b) == IF a = "True" THEN a ELSE b

\* Session.__init__(refresh): an empty buffer, no results, the policy kept
NewSession(refresh) ==
    /\ actions' = EmptyMap
    /\ kindOrder' = <<>>
    /\ enq' = [k \in Kinds |-> 0]
    /\ results' = EmptyMap
    /\ policy' = refresh
    /\ ret' = [Ret("session", "ok", -1, 0, EmptyMap, EmptyMap)
                 EXCEPT !.asked = refresh]
    /\ UNCHANGED <<records, storeVars, nextUid, indexVars, classes, stale>>

\* the refresh keyword a commit sends, given its argument and the policy
CommitRefresh(refresh, pol) == RefreshKeyword(PyOr(refresh, pol))

\* Session.commit(refresh=refresh, chunk_size=chunk)
CommitWith(refresh, chunk, failAt) ==
    IF BufferEmpty(kindOrder)
    THEN /\ failAt = 0
         /\ chunk = NoChunk
         /\ ret' = [Ret("commit", "ok", -1, 0, EmptyMap, EmptyMap)
                      EXCEPT !.asked = refresh]
         /\ UNCHANGED <<sessionVars, results, records, storeVars, nextUid,
                        otherVars>>
    ELSE LET flat == Chain(actions, kindOrder)
             s == CommitRun(actions, kindOrder, store, nextGen, chunk,
                            failAt)
             status == IF s.exc /= "none" THEN s.exc
                       ELSE IF s.errors /= EmptyMap THEN "SessionError"
                       ELSE "ok"
         IN /\ failAt <= NumChunks(Len(flat), ChunkSize(chunk))
            /\ chunk <= Len(flat)
            /\ actions' = Cleared(actions)
            /\ kindOrder' = IF actions' = EmptyMap THEN <<>> ELSE kindOrder
            /\ enq' = IF actions' = EmptyMap THEN [k \in Kinds |-> 0]
                      ELSE enq
            /\ store' = s.store
            /\ nextGen' = s.gen
            /\ submitted' = submitted \cup Range(s.sent)
            /\ results' = IF s.exc = "none" THEN s.results ELSE results
            /\ ret' = [CommitRet("commit", status, s, flat, <<>>)
                         EXCEPT !.asked = refresh,
                                !.refresh = CommitRefresh(refresh, policy)]
            /\ UNCHANGED <<records, nextUid, otherVars>>

\* Session.commit(chunk_size=chunk): refresh keeps its default, False
Commit(chunk, failAt) == CommitWith("False", chunk, failAt)

(* ------------------------------------------------------------------ *)
(* Session.SessionModel.bulk_index                                     *)
(* ------------------------------------------------------------------ *)
\* model_indices = [self.index(model=model) for model in models]
RECURSIVE IndexAll(_, _, _, _, _)
IndexAll(acts, order, recs, ms, uid) ==
    IF ms = <<>> THEN [acts |-> acts, order |-> order, indices |-> <<>>]
    ELSE LET r == Head(ms)
             appended == ActionAppend(acts, "index",
                             Request("index", MetaIndex, NoId, ToEs(recs[r]),
                                     uid + 1, -1))
             pos == ActionPos(appended, "index")
             rest == IndexAll(ActionAppend(acts, "index",
                                  Request("index", MetaIndex, NoId,
                                          ToEs(recs[r]), uid + 1, pos)),
                              OrderAppend(order, "index"), recs, Tail(ms),
                              uid + 1)
         IN [rest EXCEPT !.indices = <<pos>> \o @]

\* the ids handed out from the last model to the first
RECURSIVE ZipPatchReversed(_, _, _, _)
ZipPatchReversed(recs, ms, indices, ids) ==
    IF indices = <<>> \/ ids = <<>>
    THEN [records |-> recs,
          exc |-> IF Len(indices) /= Len(ids) THEN "ValueError" ELSE "none"]
    ELSE IF Head(indices) >= Len(ms)
    THEN [records |-> recs, exc |-> "IndexError"]
    ELSE ZipPatchReversed(
             [recs EXCEPT ![ms[Len(ms) - Head(indices)]].id = Head(ids)],
             ms, Tail(indices), Tail(ids))

\* for i, created_id in zip(model_indices, results["index"], strict=True):
\*     models[i].id = created_id
RECURSIVE ZipPatch(_, _, _, _)
ZipPatch(recs, ms, indices, ids) ==
    IF indices = <<>> \/ ids = <<>>
    THEN [records |-> recs,
          exc |-> IF Len(indices) /= Len(ids) THEN "ValueError" ELSE "none"]
    ELSE IF Head(indices) >= Len(ms)
    THEN [records |-> recs, exc |-> "IndexError"]
    ELSE ZipPatch([recs EXCEPT ![ms[Head(indices) + 1]].id = Head(ids)],
                  ms, Tail(indices), Tail(ids))

\* sequences of distinct records of length 0..NumRecords
ModelLists ==
    UNION {{ms \in [1..n -> Records] :
               \A i, j \in 1..n : i /= j => ms[i] /= ms[j]} :
           n \in 0..NumRecords}

\* bulk_index after its validation loop: enqueue, commit, patch the ids
BulkIndexRun(ms, chunk, failAt) ==
    LET op == "model.bulk_index"
        e == IndexAll(actions, kindOrder, records, ms, nextUid)
    IN
    /\ nextUid' = nextUid + Len(ms)
    /\ UNCHANGED otherVars
    /\ IF BufferEmpty(e.order)
       THEN \* commit returns {} and results["index"] raises KeyError
            /\ failAt = 0
            /\ chunk = NoChunk
            /\ ret' = [Ret(op, "KeyError", -1, 0, EmptyMap, EmptyMap)
                         EXCEPT !.args = ms]
            /\ UNCHANGED <<sessionVars, results, records, storeVars,
                           otherVars>>
       ELSE LET flat == Chain(e.acts, e.order)
                s == CommitRun(e.acts, e.order, store, nextGen, chunk,
                               failAt)
                z == ZipPatch(records, ms, e.indices, s.results["index"])
            IN /\ failAt <= NumChunks(Len(flat), ChunkSize(chunk))
               /\ chunk <= Len(flat)
               /\ actions' = Cleared(e.acts)
               /\ kindOrder' = IF actions' = EmptyMap THEN <<>> ELSE e.order
               /\ enq' = IF actions' = EmptyMap THEN [k \in Kinds |-> 0]
                         ELSE [enq EXCEPT !["index"] = @ + Len(ms)]
               /\ store' = s.store
               /\ nextGen' = s.gen
               /\ submitted' = submitted \cup Range(s.sent)
               /\ results' = IF s.exc = "none" THEN s.results ELSE results
               /\ IF s.exc /= "none"
                  THEN /\ records' = records
                       /\ ret' = CommitRet(op, s.exc, s, flat, ms)
                  ELSE IF s.errors /= EmptyMap
                  THEN /\ records' = records
                       /\ ret' = CommitRet(op, "SessionError", s, flat, ms)
                  ELSE IF s.results["index"] = <<>>
                  THEN /\ records' = records
                       /\ ret' = CommitRet(op, "KeyError", s, flat, ms)
                  ELSE /\ records' = z.records
                       /\ ret' = CommitRet(op, IF z.exc = "none" THEN "ok"
                                               ELSE z.exc, s, flat, ms)

\* SessionModel.bulk_index(models, commit_kwargs={chunk_size: chunk})
ModelBulkIndex(ms, chunk, failAt) ==
    /\ nextUid + Len(ms) <= MaxModelOps
    /\ IF \E i \in 1..Len(ms) : ~ValidateModel(records[ms[i]])
       THEN /\ failAt = 0
            /\ chunk = NoChunk
            /\ Raise("model.bulk_index", "ValidationError", ms)
       ELSE BulkIndexRun(ms, chunk, failAt)

(* ------------------------------------------------------------------ *)
(* ESModel: save, get, delete                                          *)
(* ------------------------------------------------------------------ *)
\* an operation that goes to Meta.index whatever index it is given
TargetAlwaysMeta(index) == MetaIndex

\* index = index or self.Meta.index
TargetIndex(index) == IF index = Omitted THEN MetaIndex ELSE index

\* the id under which client.index stores the document: the one passed,
\* or a fresh one when none is passed
IndexedId(id, gen) == IF id = NoId THEN GenBase + gen + 1 ELSE id

\* what save returns after its request
SaveRet(r, index, refresh, id) ==
    [Ret("save", "ok", id, 1, EmptyMap, EmptyMap)
       EXCEPT !.args = <<r>>, !.idx = TargetIndex(index), !.arg = index,
              !.asked = refresh, !.refresh = RefreshKeyword(refresh),
              !.rec = GetDoc(store, id, TargetIndex(index)).val]

\* a save that never passes the record's id to the store
SaveAsNew(r, index, refresh) ==
    IF ~ValidateModel(records[r])
    THEN Raise("save", "ValidationError", <<r>>)
    ELSE LET idx == TargetIndex(index)
             id == IndexedId(NoId, nextGen)
         IN /\ store' = Without(store, idx, id)
                           \cup {[idx |-> idx, id |-> id,
                                  body |-> ToEs(records[r])]}
            /\ nextGen' = nextGen + 1
            /\ records' = [records EXCEPT ![r].id = id]
            /\ ret' = SaveRet(r, index, refresh, id)
            /\ UNCHANGED <<sessionVars, results, submitted, nextUid,
                           otherVars>>

\* a save that stores the record without validating it
SaveUnvalidated(r, index, refresh) ==
    LET idx == TargetIndex(index)
        id == IndexedId(records[r].id, nextGen)
    IN /\ store' = Without(store, idx, id)
                      \cup {[idx |-> idx, id |-> id,
                             body |-> ToEs(records[r])]}
       /\ nextGen' = IF records[r].id = NoId THEN nextGen + 1 ELSE nextGen
       /\ records' = [records EXCEPT ![r].id = id]
       /\ ret' = SaveRet(r, index, refresh, id)
       /\ UNCHANGED <<sessionVars, results, submitted, nextUid, otherVars>>

\* ESModel.save(index, refresh): validate, client.index(index, body,
\* id=self.id, refresh), self.id = res["_id"]; rec records the document that
\* was replaced
Save(r, index, refresh) ==
    IF ~ValidateModel(records[r])
    THEN Raise("save", "ValidationError", <<r>>)
    ELSE LET idx == TargetIndex(index)
             id == IndexedId(records[r].id, nextGen)
         IN /\ store' = Without(store, idx, id)
                           \cup {[idx |-> idx, id |-> id,
                                  body |-> ToEs(records[r])]}
            /\ nextGen' = IF records[r].id = NoId THEN nextGen + 1
                          ELSE nextGen
            /\ records' = [records EXCEPT ![r].id = id]
            /\ ret' = SaveRet(r, index, refresh, id)
            /\ UNCHANGED <<sessionVars, results, submitted, nextUid,
                           otherVars>>

\* what get returns or raises for the hit `got`
GetRet(id, index, got) ==
    [Ret("get", got.status, id, 1, EmptyMap, EmptyMap)
       EXCEPT !.idx = TargetIndex(index), !.arg = index, !.rec = got.val]

\* a get that answers None when the store has no such document
GetOrNone(id, index) ==
    /\ ret' = GetRet(id, index,
                     IF Has(store, TargetIndex(index), id)
                     THEN GetDoc(store, id, TargetIndex(index))
                     ELSE FromEsHit(EmptyHit))
    /\ UNCHANGED <<sessionVars, results, records, storeVars, nextUid,
                   otherVars>>

\* ESModel.get(_id, index)
Get(id, index) ==
    /\ ret' = GetRet(id, index, GetDoc(store, id, TargetIndex(index)))
    /\ UNCHANGED <<sessionVars, results, records, storeVars, nextUid,
                   otherVars>>

\* the call Model.from_es(h) on a mapping the caller got from the store
FromEsCall(h) ==
    /\ ret' = [Ret("from_es", FromEsHit(h).status, -1, 0, EmptyMap, EmptyMap)
                 EXCEPT !.args = <<h>>, !.rec = FromEsHit(h).val]
    /\ UNCHANGED <<sessionVars, results, records, storeVars, nextUid,
                   otherVars>>

\* what delete returns or raises after its request
DeleteRet(r, index, refresh, status) ==
    [Ret("delete", status, records[r].id, 1, EmptyMap, EmptyMap)
       EXCEPT !.args = <<r>>, !.idx = TargetIndex(index), !.arg = index,
              !.asked = refresh, !.refresh = RefreshKeyword(refresh)]

\* the store's answer to client.delete
Deleted(idx, id) == IF Has(store, idx, id) THEN "ok" ELSE "NotFoundError"

\* a delete that sends the request whatever the record's id is
DeleteUnchecked(r, index, refresh) ==
    /\ store' = Without(store, TargetIndex(index), records[r].id)
    /\ ret' = DeleteRet(r, index, refresh,
                        Deleted(TargetIndex(index), records[r].id))
    /\ UNCHANGED <<sessionVars, results, records, nextGen, submitted,
                   nextUid, otherVars>>

\* a delete that returns normally when the store has no such document
DeleteQuiet(r, index, refresh) ==
    IF records[r].id = NoId
    THEN Raise("delete", "MissingId", <<r>>)
    ELSE /\ store' = Without(store, TargetIndex(index), records[r].id)
         /\ ret' = DeleteRet(r, index, refresh, "ok")
         /\ UNCHANGED <<sessionVars, results, records, nextGen, submitted,
                        nextUid, otherVars>>

\* ESModel.delete(index, refresh)
Delete(r, index, refresh) ==
    IF records[r].id = NoId
    THEN Raise("delete", "MissingId", <<r>>)
    ELSE /\ store' = Without(store, TargetIndex(index), records[r].id)
         /\ ret' = DeleteRet(r, index, refresh,
                             Deleted(TargetIndex(index), records[r].id))
         /\ UNCHANGED <<sessionVars, results, records, nextGen, submitted,
                        nextUid, otherVars>>

\* Session.bulk_index(collection, index) on a buffer `acts`:
\* [self.index(model, index=index) for model in collection]
RECURSIVE SessionBulkIndex(_, _, _, _, _)
SessionBulkIndex(acts, order, bodies, idx, uid) ==
    IF bodies = <<>> THEN [acts |-> acts, order |-> order]
    ELSE SessionBulkIndex(
             ActionAppend(acts, "index",
                 Request("index", idx, NoId, Head(bodies), uid + 1,
                         Len(acts["index"]))),
             OrderAppend(order, "index"), Tail(bodies), idx, uid + 1)

\* ESModel.bulk_index(collection): a Session(refresh=True) of its own, whose
\* buffer is empty on entry; session.bulk_index(collection, Meta.index);
\* results = await session.commit(); return results['index']
BulkIndex(bodies, failAt) ==
    LET e == SessionBulkIndex(EmptyMap, <<>>, bodies, MetaIndex, nextUid)
        flat == Chain(e.acts, e.order)
        s == CommitRun(e.acts, e.order, store, nextGen, NoChunk, failAt)
        status == IF BufferEmpty(e.order) THEN "KeyError"
                  ELSE IF s.exc /= "none" THEN s.exc
                  ELSE IF s.errors /= EmptyMap THEN "SessionError"
                  ELSE IF s.results["index"] = <<>> THEN "KeyError"
                  ELSE "ok"
    IN /\ nextUid + Len(bodies) <= MaxOps
       /\ failAt <= NumChunks(Len(flat), ChunkSize(NoChunk))
       /\ nextUid' = nextUid + Len(bodies)
       /\ IF BufferEmpty(e.order)
          THEN \* commit returns {} without a request
               /\ ret' = [Ret("bulk_index", status, -1, 0, EmptyMap,
                              EmptyMap) EXCEPT !.args = bodies]
               /\ UNCHANGED storeVars
          ELSE /\ store' = s.store
               /\ nextGen' = s.gen
               /\ submitted' = submitted \cup Range(s.sent)
               /\ ret' = [CommitRet("bulk_index", status, s, flat, bodies)
                            EXCEPT !.asked = "False",
                                   !.refresh = CommitRefresh("False", "True")]
       /\ UNCHANGED <<sessionVars, results, records, otherVars>>

(* ------------------------------------------------------------------ *)
(* ESModelMeta: declaring a record type                                *)
(* ------------------------------------------------------------------ *)
\* base_model.__dict__.get("Meta", False): the class's own Meta
OwnMeta(d) == d.meta /= "absent"

\* namespace['Config'].abstract, with AttributeError and KeyError passed over
MarkedAbstract(d) == d.config = "abstract"

\* meta.__dict__.get('index'): truthy only for a non-empty name set in the
\* Meta class's own body
OwnIndexName(d) == d.meta = "index"

\* a metaclass that accepts every class statement
NewUnchecked(d) == "ok"

\* ESModelMeta.__new__: what the class statement raises
New(d) ==
    IF ~OwnMeta(d) THEN "NotImplementedError"
    ELSE IF MarkedAbstract(d) THEN "ok"
    ELSE IF ~OwnIndexName(d) THEN "NotImplementedError"
    ELSE "ok"

\* the class statement: the name is bound only when __new__ returns
Declare(d) ==
    /\ classes' = IF New(d) = "ok" THEN classes \cup {d} ELSE classes
    /\ ret' = [Ret("declare", New(d), -1, 0, EmptyMap, EmptyMap)
                 EXCEPT !.decl = d]
    /\ UNCHANGED <<sessionVars, results, records, storeVars, nextUid,
                   indexVars, policy, stale>>

\* MyModel(...): needs the name the class statement bound
Instantiate(d) ==
    /\ d \in classes
    /\ ret' = [Ret("construct", "ok", -1, 0, EmptyMap, EmptyMap)
                 EXCEPT !.decl = d]
    /\ UNCHANGED <<sessionVars, results, records, storeVars, nextUid,
                   otherVars>>

(* ------------------------------------------------------------------ *)
(* ESModel._Index: template, physical indices and alias                *)
(* ------------------------------------------------------------------ *)
\* what the operations on Model.index leave alone
mapperVars ==
    <<sessionVars, results, records, storeVars, nextUid, ret, policy,
      classes, stale>>

\* a task is between the first store call of a call and its return
InFlight(t) == pc[t] \notin {"idle", "done"}

\* the locals of a call that starts now
NewCall(op, move, upd, force) ==
    [NoCall EXCEPT !.op = op, !.move = move, !.upd = upd, !.force = force,
                   !.before = alias, !.status = "run"]

\* the locals after one more store call
Called(l, call) == [l EXCEPT !.trace = Append(@, call)]

\* migrate: index = res.body['index'] ... return index; setup and delete
\* return nothing
Returned(l, status) ==
    IF l.op = "migrate" /\ l.status = "run" /\ status = "ok" THEN l.next
    ELSE NoIndex

\* the locals of a call that has ended
Ended(l, status) ==
    [l EXCEPT !.status = IF @ = "run" THEN status ELSE @,
              !.returned = Returned(l, status)]

\* a task moves on to the store call `to`, or returns
Goto(t, l, to) ==
    /\ pc' = [pc EXCEPT ![t] = to]
    /\ loc' = [loc EXCEPT ![t] = IF to = "done" THEN Ended(l, "ok") ELSE l]

\* a call starts: calls are counted to bound the behaviours
Begin(t) ==
    /\ ~InFlight(t)
    /\ ncalls < MaxCalls
    /\ ncalls' = ncalls + 1

\* setup: exist = await exists_index_template(name)
CheckTemplate(t, l) ==
    /\ Goto(t, [Called(l, "exists_index_template")
                  EXCEPT !.sawTpl = (tmpl /= NoTemplate)],
            IF tmpl /= NoTemplate THEN "exists" ELSE "put_index_template")
    /\ UNCHANGED <<tmpl, schema, phys, held, alias, clock, mapperVars>>

\* _Index.setup(move_data, update_alias, force_migrate) up to its first
\* store call
IndexSetup(t, move, upd, force) ==
    /\ Begin(t)
    /\ CheckTemplate(t, NewCall("setup", move, upd, force))

\* a setup that uploads the template whatever the check answered
PutTemplateAlways(t) ==
    /\ pc[t] \in {"put_index_template", "exists"}
    /\ "put_index_template" \notin Range(loc[t].trace)
    /\ tmpl' = schema
    /\ Goto(t, Called(loc[t], "put_index_template"), "exists")
    /\ UNCHANGED <<schema, phys, held, alias, clock, ncalls, mapperVars>>

\* setup: if not exist: await put_index_template(**index_template_format())
PutTemplate(t) ==
    /\ pc[t] = "put_index_template"
    /\ tmpl' = schema
    /\ Goto(t, Called(loc[t], "put_index_template"), "exists")
    /\ UNCHANGED <<schema, phys, held, alias, clock, ncalls, mapperVars>>

\* _Index.exist: the logical name resolves to an index
Exist(al) == al /= {}

\* a setup that migrates whatever exist() answered
ExistsMigrateAlways(t) ==
    /\ pc[t] = "exists"
    /\ Goto(t, [Called(loc[t], "exists") EXCEPT !.sawIdx = Exist(alias)],
            "create")
    /\ UNCHANGED <<tmpl, schema, phys, held, alias, clock, ncalls,
                   mapperVars>>

\* setup: force_migrate = force_migrate or (not await self.exist());
\* if force_migrate: await self.migrate(...)
Exists(t) ==
    /\ pc[t] = "exists"
    /\ Goto(t, [Called(loc[t], "exists") EXCEPT !.sawIdx = Exist(alias)],
            IF loc[t].force \/ ~Exist(alias) THEN "create" ELSE "done")
    /\ UNCHANGED <<tmpl, schema, phys, held, alias, clock, ncalls,
                   mapperVars>>

\* the timestamps datetime.utcnow() may answer: the clock does not go back
Now == {ts \in {clock, clock + 1} : 1 <= ts /\ ts <= MaxClock}

\* a migrate that never repoints the alias unless it copied data
AfterCreateNoAlias(l) == IF l.move THEN "reindex" ELSE "done"

\* a migrate that repoints the alias before it copies the data
AfterCreateRepointFirst(l) ==
    IF l.upd THEN "update_aliases" ELSE IF l.move THEN "reindex" ELSE "done"

\* the store call that follows the creation of the index
AfterCreate(l) ==
    IF l.move THEN "reindex" ELSE IF l.upd THEN "update_aliases" ELSE "done"

\* migrate: next_index = pattern with the timestamp; indices.create, which
\* the store refuses (400) when an index of that name exists
CreateIndex(t, l) ==
    \E ts \in Now :
        /\ clock' = ts
        /\ IF ts \in phys
           THEN /\ Goto(t, Ended(Called(l, "create"), "BadRequestError"),
                        "done")
                /\ phys' = phys
           ELSE /\ Goto(t, [Called(l, "create") EXCEPT !.next = ts],
                        AfterCreate(l))
                /\ phys' = phys \cup {ts}
        /\ UNCHANGED <<tmpl, schema, held, alias, mapperVars>>

\* setup: await self.migrate(move_data, update_alias), its first store call
Create(t) ==
    /\ pc[t] = "create"
    /\ CreateIndex(t, loc[t])
    /\ UNCHANGED ncalls

\* _Index.migrate(move_data, update_alias) up to its first store call
IndexMigrate(t, move, upd) ==
    /\ Begin(t)
    /\ CreateIndex(t, NewCall("migrate", move, upd, TRUE))

\* the documents a search through the alias finds (none on a 404)
Readable(al, h) == {d \in Docs : \E i \in al : <<i, d>> \in h}

\* migrate: async_reindex(source_index=alias, target_index=next_index)
Reindex(t) ==
    /\ pc[t] = "reindex"
    /\ held' = held \cup {<<loc[t].next, d>> : d \in Readable(alias, held)}
    /\ Goto(t, [Called(loc[t], "reindex")
                  EXCEPT !.copied = Readable(alias, held)], "refresh")
    /\ UNCHANGED <<tmpl, schema, phys, alias, clock, ncalls, mapperVars>>

\* migrate: indices.refresh(index=next_index)
Refresh(t) ==
    /\ pc[t] = "refresh"
    /\ Goto(t, Called(loc[t], "refresh"),
            IF loc[t].upd THEN "update_aliases" ELSE "done")
    /\ UNCHANGED <<tmpl, schema, phys, held, alias, clock, ncalls,
                   mapperVars>>

\* the physical indices whose name matches the pattern logicalName-*
Matching(ph) == ph

\* an alias update that adds the new index and removes nothing
AliasAddOnly(al, ph, next) == al \cup {next}

\* an alias update that removes the binding and adds nothing
AliasRemoveOnly(al, ph, next) == al \ Matching(ph)

\* the binding after update_aliases(actions=[remove alias from pattern,
\* add alias to next_index]), applied as one request
AliasAfter(al, ph, next) == (al \ Matching(ph)) \cup {next}

\* migrate: indices.update_aliases; the request fails as a whole (404)
\* when next_index is gone
UpdateAliases(t) ==
    /\ pc[t] = "update_aliases"
    /\ IF loc[t].next \in phys
       THEN /\ alias' = AliasAfter(alias, phys, loc[t].next)
            /\ Goto(t, Called(loc[t], "update_aliases"), "done")
       ELSE /\ alias' = alias
            /\ Goto(t, Ended(Called(loc[t], "update_aliases"),
                             "NotFoundError"), "done")
    /\ UNCHANGED <<tmpl, schema, phys, held, clock, ncalls, mapperVars>>

\* a delete that issues its delete calls without looking at the status
GetAliasUnchecked(t, l) ==
    /\ Goto(t, [Called(l, "get_alias")
                  EXCEPT !.resolved = alias, !.pending = alias \cup {NoIndex}],
            "delete")
    /\ UNCHANGED <<tmpl, schema, phys, held, alias, clock, mapperVars>>

\* delete: result = get_alias(index=name) with 404 ignored; one
\* indices.delete per index of result.body is issued, all at once
GetAlias(t, l) ==
    /\ Goto(t, [Called(l, "get_alias")
                  EXCEPT !.resolved = alias, !.pending = alias],
            IF alias = {} THEN "done" ELSE "delete")
    /\ UNCHANGED <<tmpl, schema, phys, held, alias, clock, mapperVars>>

\* _Index.delete() up to its first store call
IndexDelete(t) ==
    /\ Begin(t)
    /\ GetAlias(t, NewCall("delete", FALSE, FALSE, FALSE))

\* delete: one of the indices.delete calls in flight completes; the store
\* answers 404 for an index that is gone, and gather raises it
DeleteIndex(t, i) ==
    /\ pc[t] = "delete"
    /\ i \in loc[t].pending
    /\ phys' = phys \ {i}
    /\ alias' = alias \ {i}
    /\ held' = {h \in held : h[1] /= i}
    /\ LET l == [Called(loc[t], "delete") EXCEPT !.pending = @ \ {i}]
           m == IF i \in phys THEN l
                ELSE [l EXCEPT !.status = "NotFoundError"]
       IN Goto(t, m, IF m.pending = {} THEN "done" ELSE "delete")
    /\ UNCHANGED <<tmpl, schema, clock, ncalls, mapperVars>>

\* the record type's schema or settings change between two deployments
SchemaChange(v) ==
    /\ v /= schema
    /\ \A t \in Tasks : ~InFlight(t)
    /\ schema' = v
    /\ UNCHANGED <<tmpl, phys, held, alias, clock, pc, loc, ncalls,
                   mapperVars>>

\* ESModel.save of a new document through the logical name, which the
\* store writes to the index the alias is bound to
AliasSave(d) ==
    /\ Cardinality(alias) = 1
    /\ \A i \in alias : <<i, d>> \notin held
    /\ held' = held \cup {<<i, d>> : i \in alias}
    /\ UNCHANGED <<tmpl, schema, phys, alias, clock, pc, loc, ncalls,
                   mapperVars>>

(* ------------------------------------------------------------------ *)
(* The specification                                                   *)
(* ------------------------------------------------------------------ *)
ChunkArgs == 0..MaxChunk
FailArgs == 0..MaxOps

\* the raw operations of a Session
SessionNext ==
    \/ Enter
    \/ Exit
    \/ \E b \in RawBodies, i \in Indices : SessionIndex(b, i)
    \/ \E b \in RawBodies, id \in UserIds, i \in Indices :
           SessionCreate(b, id, i)
    \/ \E b \in RawBodies, id \in UserIds \cup {NoId}, i \in Indices :
           SessionUpdate(b, id, i)
    \/ \E id \in UserIds \cup {NoId}, i \in Indices : SessionDelete(id, i)
    \/ \E c \in ChunkArgs, f \in FailArgs : Commit(c, f)

Spec == Init /\ [][SessionNext]_vars

\* the operations of Session.model on the caller's records
ModelNext ==
    \/ \E r \in Records : ModelIndex(r)
    \/ \E r \in Records : ModelCreate(r)
    \/ \E r \in Records : ModelUpdate(r)
    \/ \E r \in Records : ModelDelete(r)
    \/ \E ms \in ModelLists, c \in ChunkArgs, f \in 0..MaxModelOps :
           ModelBulkIndex(ms, c, f)
    \/ \E c \in ChunkArgs, f \in 0..MaxModelOps : Commit(c, f)
    \/ \E r \in Records : \E c \in {InitColor(r), "green"} : SetColor(r, c)
    \/ \E r \in Records, id \in UserIds : SetId(r, id)

ModelSpec == Init /\ [][ModelNext]_vars

\* the operations that validate a record before they write or buffer it
ValidateNext ==
    \/ \E r \in Records : Save(r, Omitted, "False")
    \/ \E r \in Records : ModelIndex(r)
    \/ \E r \in Records : ModelCreate(r)
    \/ \E r \in Records : ModelUpdate(r)
    \/ \E r \in Records : ModelDelete(r)
    \/ \E ms \in ModelLists : ModelBulkIndex(ms, NoChunk, 0)
    \/ \E r \in Records : \E c \in {InitColor(r), "green"} : SetColor(r, c)

ValidateSpec == Init /\ [][ValidateNext]_vars

\* the steps of the calls on Model.index made by the tasks of `ts`
IndexSteps(ts) ==
    \/ \E t \in ts, m, u, f \in BOOLEAN : IndexSetup(t, m, u, f)
    \/ \E t \in ts : PutTemplate(t)
    \/ \E t \in ts : Exists(t)
    \/ \E t \in ts : Create(t)
    \/ \E t \in ts, m, u \in BOOLEAN : IndexMigrate(t, m, u)
    \/ \E t \in ts : Reindex(t)
    \/ \E t \in ts : Refresh(t)
    \/ \E t \in ts : UpdateAliases(t)
    \/ \E t \in ts : IndexDelete(t)
    \/ \E t \in ts, i \in 0..MaxClock : DeleteIndex(t, i)
    \/ \E v \in Schemas : SchemaChange(v)
    \/ \E d \in Docs : AliasSave(d)

\* setup, migrate and delete called by concurrent tasks
IndexNext == IndexSteps(Tasks)

IndexSpec == Init /\ [][IndexNext]_vars

\* setup, migrate and delete called one after the other
IndexSeqNext == IndexSteps({1})

IndexSeqSpec == Init /\ [][IndexSeqNext]_vars

\* the ids a caller reads a document by: its own and the store's
ReadIds == 1..(NumUserIds + NumRecords)

\* the index arguments of save, get and delete
IndexArgs == {Omitted, CustomIndex}

\* the operations of ESModel on the caller's records, which the caller
\* changes from one valid colour to the other in between
MapperNext ==
    \/ \E r \in Records, i \in IndexArgs : Save(r, i, "False")
    \/ \E id \in ReadIds, i \in IndexArgs : Get(id, i)
    \/ \E r \in Records, i \in IndexArgs : Delete(r, i, "False")
    \/ \E r \in Records, c \in ValidColors : SetColor(r, c)
    \/ \E r \in Records, id \in UserIds : SetId(r, id)

MapperSpec == Init /\ [][MapperNext]_vars

\* get between the writes of ESModel and of a session's model operations
ReadNext ==
    \/ \E r \in Records : Save(r, Omitted, "False")
    \/ \E r \in Records : Delete(r, Omitted, "False")
    \/ \E id \in ReadIds : Get(id, Omitted)
    \/ \E r \in Records : ModelCreate(r)
    \/ \E r \in Records : ModelDelete(r)
    \/ Commit(NoChunk, 0)
    \/ \E r \in Records, id \in UserIds : SetId(r, id)

ReadSpec == Init /\ [][ReadNext]_vars

\* the collections handed to ESModel.bulk_index: up to two bodies
Collections ==
    UNION {[1..n -> {ToEs([color |-> c, timestamp |-> InitTimestamp]) :
                         c \in ValidColors}] : n \in 0..2}

\* ESModel.bulk_index and Session.model.bulk_index next to the raw
\* operations of the caller's session
BulkNext ==
    \/ \E bs \in Collections, f \in 0..1 : BulkIndex(bs, f)
    \/ \E ms \in ModelLists, f \in 0..1 : ModelBulkIndex(ms, NoChunk, f)
    \/ \E b \in RawBodies, i \in Indices : SessionIndex(b, i)
    \/ \E id \in UserIds, i \in Indices : SessionDelete(id, i)
    \/ \E c \in ChunkArgs, f \in 0..1 : Commit(c, f)

BulkSpec == Init /\ [][BulkNext]_vars

\* sessions of every policy, commits with every refresh argument, and the
\* single-record calls with every refresh argument
RefreshNext ==
    \/ \E f \in RefreshArgs : NewSession(f)
    \/ \E b \in RawBodies : SessionIndex(b, MetaIndex)
    \/ \E f \in RefreshArgs, x \in 0..1 : CommitWith(f, NoChunk, x)
    \/ \E r \in Records, f \in RefreshArgs : Save(r, Omitted, f)
    \/ \E r \in Records, f \in RefreshArgs : Delete(r, Omitted, f)

RefreshSpec == Init /\ [][RefreshNext]_vars

\* class statements and constructor calls
DeclNext ==
    \/ \E d \in Declarations : Declare(d)
    \/ \E d \in Declarations : Instantiate(d)

DeclSpec == Init /\ [][DeclNext]_vars

\* the source bodies a hit can carry
Bodies ==
    [color : {"red", "green"},
     timestamp : {v \in Timestamps : v.at <= 1}]

\* the mappings handed to from_es
Hits ==
    {EmptyHit} \cup {HitOf(id, b) : id \in {NoId} \cup UserIds,
                                    b \in Bodies \cup {NoBody}}

\* save, get and from_es of records whose date field the caller assigns
\* in between
WireNext ==
    \/ \E r \in Records : Save(r, Omitted, "False")
    \/ \E id \in ReadIds : Get(id, Omitted)
    \/ \E h \in Hits : FromEsCall(h)
    \/ \E r \in Records, v \in Timestamps : SetTimestamp(r, v)

WireSpec == Init /\ [][WireNext]_vars

(* ------------------------------------------------------------------ *)
(* Properties                                                          *)
(* ------------------------------------------------------------------ *)
Count(q, k) == Cardinality({i \in 1..Len(q) : q[i].kind = k})

ItemsOf(uid) == {j \in 1..Len(ret.items) : ret.items[j].uid = uid}

\* C1: whenever Session.commit returns normally, the list returned for each
\* kind has as many entries as were buffered for it, and its p-th entry is
\* the identifier of the mutation whose enqueue call returned position p
C1_CommitOrder ==
    (ret.op = "commit" /\ ret.status = "ok") =>
        /\ \A k \in Kinds : Len(ret.out[k]) = Count(ret.acts, k)
        /\ \A i \in 1..Len(ret.acts) :
               LET a == ret.acts[i] IN
               /\ a.pos + 1 \in 1..Len(ret.out[a.kind])
               /\ ItemsOf(a.uid) /= {}
               /\ \A j \in ItemsOf(a.uid) :
                      ret.out[a.kind][a.pos + 1] = ret.items[j].id
               /\ a.kind /= "index" => ret.out[a.kind][a.pos + 1] = a.id

\* a commit in several requests that returned two kinds, one of them twice
C1_Witness ==
    /\ ret.op = "commit" /\ ret.status = "ok"
    /\ ret.calls >= 2
    /\ Len(ret.out["index"]) = 2
    /\ Len(ret.out["create"]) = 1

OpKind(op) ==
    CASE op = "Session.index" -> "index"
      [] op = "Session.create" -> "create"
      [] op = "Session.update" -> "update"
      [] op = "Session.delete" -> "delete"
      [] OTHER -> "none"

\* C2: every enqueue operation returns the number of mutations of its own
\* kind buffered since the buffer was last cleared, counted from 0
C2_Position ==
    (OpKind(ret.op) \in Kinds /\ ret.status = "ok") =>
        ret.val = enq[OpKind(ret.op)] - 1

\* an enqueue after a commit returns 0 while another kind is buffered
C2_Witness ==
    /\ OpKind(ret.op) \in Kinds /\ ret.status = "ok"
    /\ ret.val = 0
    /\ submitted /= {}
    /\ \E k \in Kinds \ {OpKind(ret.op)} : actions[k] /= <<>>

ActOf(uid) == CHOOSE a \in Range(ret.acts) : a.uid = uid

\* C4: bulk_index, whatever the buffer held before, sets each model's id to
\* the commit result at the position returned when the model was enqueued,
\* and raises when the models and the returned identifiers differ in number
C4_BulkIndexPositions ==
    (/\ ret.op = "model.bulk_index"
     /\ ret.status \in {"ok", "IndexError", "ValueError"}) =>
        /\ \A i \in 1..Len(ret.args) :
               LET a == ActOf(nextUid - Len(ret.args) + i) IN
               /\ a.pos + 1 \in 1..Len(ret.out["index"])
               /\ records[ret.args[i]].id = ret.out["index"][a.pos + 1]
        /\ Len(ret.args) /= Len(ret.out["index"]) => ret.status /= "ok"

\* C5: a commit of N >= 1 deletes of documents the store does not hold raises
\* SessionError with exactly N entries under "delete", each a 404
C5_DeleteErrors ==
    (/\ ret.op = "commit" /\ ret.acts /= <<>>
     /\ ret.status /= "ApiError"
     /\ \A i \in 1..Len(ret.acts) :
            /\ ret.acts[i].kind = "delete"
            /\ ret.acts[i].id /= NoId
            /\ ~Has(store, ret.acts[i].idx, ret.acts[i].id)
     /\ \A j \in 1..Len(ret.items) : ~ret.items[j].ok) =>
        /\ ret.status = "SessionError"
        /\ Len(ret.errors["delete"]) = Len(ret.acts)
        /\ \A j \in 1..Len(ret.errors["delete"]) :
               ret.errors["delete"][j].status = 404

\* C6: when Session.commit raises SessionError every buffered mutation has
\* been sent to the store
C6_AllSubmitted ==
    (ret.op = "commit" /\ ret.status = "SessionError") =>
        \A i \in 1..Len(ret.acts) : ret.acts[i].uid \in Range(ret.sent)

\* C7: however Session.commit ends, the buffer is empty afterwards and no
\* mutation it sends was sent by an earlier commit
C7_NoReplay ==
    [][ret'.op = "commit" =>
          /\ actions' = EmptyMap
          /\ kindOrder' = <<>>
          /\ Range(ret'.sent) \cap submitted = {}
          /\ \A i, j \in 1..Len(ret'.sent) :
                 i /= j => ret'.sent[i] /= ret'.sent[j]]_vars

\* a commit on the buffer left by a commit that the transport failed
C7_Witness ==
    /\ ret.op = "commit" /\ ret.status = "ok"
    /\ ret.acts = <<>>
    /\ submitted /= {}
    /\ results = EmptyMap

\* C8: Session.commit with nothing buffered returns an empty map and sends
\* nothing to the store
C8_EmptyCommit ==
    (ret.op = "commit" /\ ret.acts = <<>>) =>
        /\ ret.status = "ok"
        /\ ret.out = EmptyMap
        /\ ret.calls = 0
        /\ ret.sent = <<>>

\* a commit right after a commit that sent something
C8_Witness ==
    /\ ret.op = "commit" /\ ret.acts = <<>>
    /\ submitted /= {}
    /\ store /= {}

\* C9: session.model.update, delete and create on a record without id raise
\* the missing-identifier error at once, buffer nothing and send nothing
C9_MissingId ==
    [][\A r \in Records :
         (/\ ret'.op \in {"model.update", "model.delete", "model.create"}
          /\ ret'.args = <<r>>
          /\ records[r].id = NoId) =>
             /\ ret'.status = "MissingId"
             /\ ret'.calls = 0
             /\ actions' = actions
             /\ store' = store
             /\ submitted' = submitted]_vars

\* the error raised on a record that is also invalid, with a buffer in use
C9_Witness ==
    /\ ret.op \in {"model.update", "model.delete", "model.create"}
    /\ ret.status = "MissingId"
    /\ ~ValidateModel(records[ret.args[1]])
    /\ actions /= EmptyMap

EnqueueOps ==
    {"Session.index", "Session.create", "Session.update", "Session.delete",
     "model.index", "model.create", "model.update", "model.delete"}

\* C11: a step that enqueues a mutation sends nothing to the store and
\* leaves its documents as they are; what get answers for the id of a
\* buffered create does not change while the create is buffered; and once a
\* commit has run in which the store accepted the create, get finds the
\* document (unless the same commit also deleted it)
C11_EnqueueNoStore ==
    [][/\ (ret'.op \in EnqueueOps /\ actions' /= actions) =>
              /\ store' = store
              /\ nextGen' = nextGen
              /\ submitted' = submitted
              /\ ret'.calls = 0
       /\ \A i \in 1..Len(actions'["create"]) :
              LET a == actions'["create"][i] IN
              GetDoc(store', a.id, a.idx) = GetDoc(store, a.id, a.idx)
       /\ ret'.op = "commit" =>
              \A i \in 1..Len(ret'.acts) :
                  LET a == ret'.acts[i] IN
                  (/\ a.kind = "create"
                   /\ \E j \in 1..Len(ret'.items) :
                          ret'.items[j].uid = a.uid /\ ret'.items[j].ok
                   /\ \A k \in 1..Len(ret'.acts) :
                          ~(/\ ret'.acts[k].kind = "delete"
                            /\ ret'.acts[k].id = a.id
                            /\ ret'.acts[k].idx = a.idx)) =>
                      /\ GetDoc(store, a.id, a.idx).status = "NotFoundError"
                      /\ GetDoc(store', a.id, a.idx).status = "ok"
                      /\ GetDoc(store', a.id, a.idx).val.id = a.id]_vars

\* a commit has made a buffered create readable
C11_Witness ==
    /\ ret.op = "commit" /\ ret.status = "ok"
    /\ \E i \in 1..Len(ret.acts) :
           /\ ret.acts[i].kind = "create"
           /\ GetDoc(store, ret.acts[i].id, ret.acts[i].idx).status = "ok"
    /\ \E i \in 1..Len(ret.acts) : ret.acts[i].kind = "index"

\* C12: leaving the scope sends nothing to the store, and the mutations
\* buffered at the exit are discarded: a commit called after the scope has
\* exited submits none of them
C12_ExitDiscardsBuffer ==
    [][/\ ret'.op = "exit" =>
              /\ store' = store
              /\ submitted' = submitted
              /\ ret'.calls = 0
       /\ (ret.op = "exit" /\ ret'.op = "commit") =>
              Range(ret'.sent) \cap Range(Uids(ret.acts)) = {}]_vars

\* C12 as amended: leaving the scope sends nothing to the store and leaves
\* the buffer as it is; a commit called after the exit takes the mutations
\* buffered at the exit and submits them (all of them when it returns
\* normally), and entering the scope again drops them
C12_ExitKeepsBuffer ==
    [][/\ ret'.op = "exit" =>
              /\ store' = store
              /\ nextGen' = nextGen
              /\ submitted' = submitted
              /\ ret'.calls = 0
              /\ actions' = actions
              /\ kindOrder' = kindOrder
       /\ (ret.op = "exit" /\ ret'.op = "commit") =>
              /\ ret'.acts = ret.acts
              /\ ret.acts /= <<>> => Head(ret.acts).uid \in Range(ret'.sent)
              /\ ret'.status = "ok" =>
                     Range(Uids(ret.acts)) \subseteq Range(ret'.sent)
       /\ (ret.op = "exit" /\ ret'.op = "enter") =>
              /\ actions' = EmptyMap
              /\ store' = store]_vars

\* the scope was left with two kinds of mutation buffered, after an earlier
\* commit
C12_Witness ==
    /\ ret.op = "exit"
    /\ Len(ret.acts) >= 2
    /\ ret.acts[1].kind /= ret.acts[2].kind
    /\ submitted /= {}

DocsOf(st, idx, id) == {d \in st : d.idx = idx /\ d.id = id}

\* C20: a save of a record without id stores it under an id no document
\* has, writes that id onto the record and returns it; a save of a record
\* with an id keeps the id and replaces the document under it; either way
\* the target index then holds exactly one document under the record's id,
\* equal to the record, and every other document is as it was
C20_SaveReplaceById ==
    [][(ret'.op = "save" /\ ret'.status = "ok") =>
          LET r == ret'.args[1]
              idx == ret'.idx
              id == records'[r].id
          IN /\ id /= NoId
             /\ ret'.val = id
             /\ records[r].id = NoId =>
                    /\ \A d \in store : d.id /= id
                    /\ id \notin UserIds
             /\ records[r].id /= NoId => id = records[r].id
             /\ Cardinality(DocsOf(store', idx, id)) = 1
             /\ \A d \in DocsOf(store', idx, id) : FromEs(d) = records'[r]
             /\ records'[r].color = records[r].color
             /\ store' \ DocsOf(store', idx, id)
                  = store \ DocsOf(store, idx, id)]_vars

\* a record saved again, under the id the store gave it, after its colour
\* was changed
C20_Witness ==
    /\ ret.op = "save" /\ ret.status = "ok"
    /\ ret.rec.id = records[ret.args[1]].id
    /\ ret.rec.color /= records[ret.args[1]].color
    /\ ret.val > GenBase

ValidatingOps ==
    {"save", "model.index", "model.create", "model.update", "model.delete",
     "model.bulk_index"}

\* the operation of this step was called on a record that fails validation
OnInvalid ==
    /\ ret'.op \in ValidatingOps
    /\ \E i \in 1..Len(ret'.args) : ~ValidateModel(records[ret'.args[i]])

\* the operation of this step changed nothing and sent nothing
Rejected ==
    /\ ret'.calls = 0
    /\ store' = store
    /\ submitted' = submitted
    /\ actions' = actions
    /\ kindOrder' = kindOrder
    /\ records' = records

\* every stored document and every buffered body passes validation
AllValid(st, acts) ==
    /\ \A d \in st : d.body.color \in ValidColors
    /\ \A k \in Kinds \ {"delete"} : \A i \in 1..Len(acts[k]) :
           acts[k][i].body.color \in ValidColors

\* C13: save, session.model.index/create/update/delete and bulk_index called
\* on a record that fails validation raise ValidationError, send nothing,
\* buffer nothing and leave the record and the stored documents unchanged;
\* no invalid record is ever stored or buffered
C13_ValidationFirst ==
    [][/\ OnInvalid => (ret'.status = "ValidationError" /\ Rejected)
       /\ AllValid(store', actions')]_vars

\* C13 as amended: the same, except that session.model.update, delete and
\* create look at the id before they validate: on a record without id they
\* raise the missing-identifier error, also when the record is invalid
C13_InvalidRejected ==
    [][/\ OnInvalid =>
              /\ Rejected
              /\ ret'.status =
                     IF /\ ret'.op \in {"model.update", "model.delete",
                                        "model.create"}
                        /\ records[ret'.args[1]].id = NoId
                     THEN "MissingId" ELSE "ValidationError"
       /\ AllValid(store', actions')]_vars

\* bulk_index refused two records, the second of them invalid and saved
\* before it was made invalid
C13_Witness ==
    /\ ret.op = "model.bulk_index" /\ ret.status = "ValidationError"
    /\ Len(ret.args) = 2
    /\ ValidateModel(records[ret.args[1]])
    /\ ~ValidateModel(records[ret.args[2]])
    /\ Has(store, MetaIndex, records[ret.args[2]].id)

\* C14: in every state, whatever setup, migrate and delete calls the tasks
\* have interleaved, the alias is bound to at most one physical index, and
\* to none that does not exist
C14_AliasAtMostOne ==
    /\ Cardinality(alias \cap Matching(phys)) <= 1
    /\ alias \subseteq phys

\* two setup calls that ran concurrently on a fresh logical index and both
\* repointed the alias
C14_Witness ==
    /\ \A t \in Tasks :
           /\ pc[t] = "done" /\ loc[t].op = "setup"
           /\ loc[t].before = {}
           /\ loc[t].status = "ok"
           /\ "update_aliases" \in Range(loc[t].trace)
    /\ loc[1].next /= loc[2].next
    /\ {loc[1].next, loc[2].next} \subseteq phys
    /\ Cardinality(alias) = 1

\* the call whose steps a task is running or has run last
Finished(t, op) == pc[t] = "done" /\ loc[t].op = op /\ loc[t].status = "ok"

\* C15: after setup() (update_alias left true) returns on a logical index
\* whose alias was bound to nothing, the alias is bound to exactly one
\* physical index, the one setup created; after a forced migrate returns on
\* an alias bound to one index it is still bound to exactly one: the newly
\* created one, different from the old, when update_alias is true, and the
\* old one otherwise
C15_SetupBindsOne ==
    \A t \in Tasks :
        /\ (Finished(t, "setup") /\ loc[t].before = {} /\ loc[t].upd) =>
               /\ alias = {loc[t].next}
               /\ loc[t].next \in phys
               /\ Cardinality(alias) = 1
        /\ (/\ Finished(t, "migrate") \/ (Finished(t, "setup")
                                            /\ loc[t].force)
            /\ Cardinality(loc[t].before) = 1) =>
               /\ Cardinality(alias) = 1
               /\ loc[t].next \in phys
               /\ loc[t].upd => (alias = {loc[t].next}
                                  /\ alias /= loc[t].before)
               /\ ~loc[t].upd => alias = loc[t].before

\* a forced setup that moved the alias from the index of the first setup to
\* a new one, both still there
C15_Witness ==
    /\ Finished(1, "setup") /\ loc[1].force /\ loc[1].upd
    /\ Cardinality(loc[1].before) = 1
    /\ alias = {loc[1].next}
    /\ loc[1].before \subseteq phys
    /\ Cardinality(phys) = 2

\* task t takes this step
StepBy(t) == loc'[t] /= loc[t] \/ pc'[t] /= pc[t]

\* the store call task t issues in this step
LastCall(t) == loc'[t].trace[Len(loc'[t].trace)]

\* C16: every step of a setup or migrate call taken while the alias is
\* bound to one physical index leaves it bound to exactly one; the binding
\* is changed by the update_aliases step alone, which moves it from the old
\* index to the new one in one step
C16_AtomicCutover ==
    [][\A t \in Tasks :
         (StepBy(t) /\ loc'[t].op \in {"setup", "migrate"}) =>
             /\ Cardinality(alias) = 1 => Cardinality(alias') = 1
             /\ LastCall(t) /= "update_aliases" => alias' = alias
             /\ (LastCall(t) = "update_aliases"
                 /\ loc'[t].status /= "NotFoundError") =>
                    /\ alias' = {loc[t].next}
                    /\ loc[t].next \notin alias]_vars

\* a migrate that copied a document and moved the alias off the old index
\* while another task was in flight
C16_Witness ==
    /\ Finished(1, "migrate") /\ loc[1].move /\ loc[1].upd
    /\ Cardinality(loc[1].before) = 1
    /\ alias = {loc[1].next}
    /\ alias /= loc[1].before
    /\ \E d \in Docs : <<loc[1].next, d>> \in held
    /\ InFlight(2)

Calls(t, call) ==
    Cardinality({n \in 1..Len(loc[t].trace) : loc[t].trace[n] = call})

C18_MigrateDecision ==
    [][\A t \in Tasks :
         (StepBy(t) /\ loc'[t].op = "setup") =>
             /\ LastCall(t) = "exists" =>
                    /\ pc'[t] = "create" <=> (loc[t].force \/ alias = {})
                    /\ pc'[t] = "done" <=> ~(loc[t].force \/ alias = {})
             /\ LastCall(t) \in {"exists_index_template",
                                  "put_index_template", "exists"} =>
                    (phys' = phys /\ held' = held /\ alias' = alias)
             /\ (~loc'[t].force /\ loc'[t].sawIdx) =>
                    /\ Range(loc'[t].trace) \subseteq
                           {"exists_index_template", "put_index_template",
                            "exists"}
                    /\ phys' = phys /\ held' = held /\ alias' = alias
             /\ "create" \in Range(loc'[t].trace) =>
                    (loc'[t].force \/ ~loc'[t].sawIdx)]_vars

\* a setup with move_data and update_alias that found the index, holding a
\* document, and returned without migrating
C18_Witness ==
    /\ Finished(1, "setup")
    /\ ~loc[1].force /\ loc[1].sawIdx /\ loc[1].move /\ loc[1].upd
    /\ loc[1].trace = <<"exists_index_template", "exists">>
    /\ Readable(alias, held) /= {}

\* C19: a delete() whose alias lookup answers 404 returns normally after
\* that one call; otherwise it issues one delete per index the alias
\* resolved to, and when it has returned every one of them is gone and the
\* logical name resolves to nothing
C19_DeleteAll ==
    \A t \in Tasks :
        (pc[t] = "done" /\ loc[t].op = "delete") =>
            /\ loc[t].status = "ok"
            /\ loc[t].before = {} =>
                   loc[t].trace = <<"get_alias">>
            /\ loc[t].resolved = loc[t].before
            /\ Calls(t, "delete") = Cardinality(loc[t].resolved)
            /\ Calls(t, "get_alias") = 1
            /\ loc[t].resolved \cap phys = {}
            /\ ~Exist(alias)

\* a delete() that removed the index the alias was bound to, with its
\* document, and left an older physical index behind
C19_Witness ==
    /\ pc[1] = "done" /\ loc[1].op = "delete"
    /\ Cardinality(loc[1].resolved) = 1
    /\ Calls(1, "delete") = 1
    /\ phys /= {}
    /\ held = {}

\* C21: when save(r) has succeeded, get(r.id) and from_es of the stored hit
\* return a record equal to r in every field and in its id, and to_es of
\* that record equals to_es(r)
C21_RoundTrip ==
    [][(ret'.op = "save" /\ ret'.status = "ok") =>
          LET r == records'[ret'.args[1]]
              got == GetDoc(store', r.id, ret'.idx)
              hit == HitOf(r.id, Hit(store', ret'.idx, r.id).body)
          IN /\ Has(store', ret'.idx, r.id)
             /\ got.status = "ok"
             /\ got.val = r
             /\ FromEsHit(hit).status = "ok"
             /\ FromEsHit(hit).val = r
             /\ ToEs(got.val) = ToEs(r)]_vars

\* C28: from_es returns None for an empty hit, raises
\* InvalidElasticsearchResponse for a non-empty hit without source body or
\* without identifier, and otherwise returns a record built from the source
\* body, with the hit's identifier as id
C28_FromEsCases ==
    ret.op = "from_es" =>
        LET h == ret.args[1] IN
        /\ h.empty => (ret.status = "ok" /\ ret.rec = NoRecord)
        /\ (~h.empty /\ (~h.source \/ h.id = NoId)) =>
               ret.status = "InvalidElasticsearchResponse"
        /\ (~h.empty /\ h.source /\ h.id /= NoId) =>
               /\ ret.status = "ok"
               /\ ret.rec /= NoRecord
               /\ ret.rec.id = h.id

\* C28 as amended: the same, except that the record is built by the record
\* type's constructor, which runs the validators: a source body they refuse
\* raises ValidationError, and the record returned holds the values the
\* validators return
C28_FromEsValidates ==
    ret.op = "from_es" =>
        LET h == ret.args[1] IN
        /\ h.empty => (ret.status = "ok" /\ ret.rec = NoRecord)
        /\ (~h.empty /\ (~h.source \/ h.id = NoId)) =>
               ret.status = "InvalidElasticsearchResponse"
        /\ (~h.empty /\ h.source /\ h.id /= NoId) =>
               IF /\ h.body.color \in ValidColors
                  /\ h.body.timestamp /= BadTimestamp
               THEN /\ ret.status = "ok"
                    /\ ret.rec.id = h.id
                    /\ ret.rec.color = h.body.color
                    /\ ret.rec.timestamp.py = "datetime"
                    /\ ret.rec.timestamp.at = h.body.timestamp.at
               ELSE ret.status = "ValidationError"
        /\ ret.status /= "ok" => ret.rec = NoRecord

\* from_es of a hit with an identifier and an epoch-milliseconds date
C28_Witness ==
    /\ ret.op = "from_es" /\ ret.status = "ok"
    /\ ret.args[1].id /= NoId
    /\ ret.args[1].body.timestamp.py = "int"
    /\ ret.rec.timestamp = Timestamp("datetime", ret.args[1].body.timestamp.at)

\* C22: delete() on a record whose id is unset raises the missing-identifier
\* error, issues no store call and leaves the store (and the record) as
\* they are
C22_DeleteMissingId ==
    [][\A r \in Records :
         (ret'.op = "delete" /\ ret'.args = <<r>> /\ records[r].id = NoId) =>
             /\ ret'.status = "MissingId"
             /\ ret'.calls = 0
             /\ store' = store
             /\ nextGen' = nextGen
             /\ records' = records]_vars

\* a delete refused for its missing id while the store holds a document
C22_Witness ==
    /\ ret.op = "delete" /\ ret.status = "MissingId"
    /\ records[ret.args[1]].id = NoId
    /\ store /= {}

\* C23: delete() of a record for which the store holds no document, because
\* it was deleted or because it was never saved, raises NotFoundError and no
\* other error; the second of two consecutive delete() calls on a saved
\* record raises NotFoundError
C23_DeleteNotFound ==
    [][\A r \in Records : \A i \in {MetaIndex, CustomIndex} :
         (/\ ret'.op = "delete" /\ ret'.args = <<r>> /\ ret'.idx = i
          /\ ~Has(store, i, records[r].id)) =>
             ret'.status = "NotFoundError"]_vars

\* C23 as amended: delete() of a record whose id is set and for which the
\* target index holds no document raises NotFoundError after one store call
\* that changes nothing, and raises it in no other case; on a record whose
\* id is unset (never saved, no id given) it raises the missing-identifier
\* error instead; the second of two consecutive delete() calls on a saved
\* record raises NotFoundError
C23_DeleteNotFoundWithId ==
    [][\A r \in Records :
         (ret'.op = "delete" /\ ret'.args = <<r>>) =>
             /\ (records[r].id /= NoId
                  /\ ~Has(store, ret'.idx, records[r].id)) =>
                    /\ ret'.status = "NotFoundError"
                    /\ ret'.calls = 1
                    /\ store' = store
             /\ ret'.status = "NotFoundError" =>
                    (records[r].id /= NoId
                     /\ ~Has(store, ret'.idx, records[r].id))
             /\ records[r].id = NoId => ret'.status = "MissingId"
             /\ (/\ ret.op = "delete" /\ ret.status = "ok"
                 /\ ret.args = <<r>> /\ ret.idx = ret'.idx) =>
                    ret'.status = "NotFoundError"]_vars

\* a delete that found nothing under the id the store had given the record,
\* no index holding a document under it any more
C23_Witness ==
    /\ ret.op = "delete" /\ ret.status = "NotFoundError"
    /\ ret.val > GenBase
    /\ records[ret.args[1]].id = ret.val
    /\ \A d \in store : d.id /= ret.val
    /\ store /= {}

\* the last operation removed the document (idx, id) from the store
Removed(idx, id) ==
    \/ ret'.op = "delete" /\ ret'.status = "ok"
          /\ ret'.idx = idx /\ ret'.val = id
    \/ /\ ret'.op = "commit"
       /\ \E j \in 1..Len(ret'.items) :
              /\ ret'.items[j].kind = "delete" /\ ret'.items[j].ok
              /\ ret'.items[j].idx = idx /\ ret'.items[j].id = id

\* the last operation wrote a document under (idx, id)
Written(idx, id) ==
    \/ ret'.op = "save" /\ ret'.status = "ok"
          /\ ret'.idx = idx /\ ret'.val = id
    \/ /\ ret'.op = "commit"
       /\ \E j \in 1..Len(ret'.items) :
              /\ ret'.items[j].kind \in {"create", "index"}
              /\ ret'.items[j].ok
              /\ ret'.items[j].idx = idx /\ ret'.items[j].id = id

\* C24: get raises NotFoundError exactly when the target index holds no
\* document under the id and returns the record read from the document
\* otherwise; a successful delete, direct or through a committed session
\* delete, removes the document, and a document comes (back) only through
\* a save or a committed create under that id
C24_GetNotFound ==
    [][/\ ret'.op = "get" =>
              /\ ret'.status = "NotFoundError"
                     <=> ~Has(store, ret'.idx, ret'.val)
              /\ ret'.status /= "NotFoundError" =>
                     /\ ret'.status = "ok"
                     /\ ret'.rec = FromEs(Hit(store, ret'.idx, ret'.val))
                     /\ ret'.rec.id = ret'.val
              /\ store' = store
       /\ \A id \in ReadIds :
              /\ (Removed(MetaIndex, id) /\ ~Written(MetaIndex, id)) =>
                     /\ Has(store, MetaIndex, id)
                     /\ GetDoc(store', id, MetaIndex).status
                            = "NotFoundError"
              /\ (~Has(store, MetaIndex, id) /\ ~Written(MetaIndex, id)) =>
                     GetDoc(store', id, MetaIndex).status = "NotFoundError"
              /\ (Written(MetaIndex, id) /\ ~Removed(MetaIndex, id)) =>
                     GetDoc(store', id, MetaIndex).status = "ok"]_vars

\* a get that found nothing under an id that a committed session delete had
\* removed
C24_Witness ==
    /\ ret.op = "get" /\ ret.status = "NotFoundError"
    /\ \E r \in Records : records[r].id = ret.val
    /\ submitted /= {}
    /\ results["delete"] = <<ret.val>>

\* the documents of the store outside index idx
Outside(st, idx) == {d \in st : d.idx /= idx}

\* C25: save, get and delete act on the index they are given, and on
\* Meta.index when none is given; given another index than Meta.index they
\* read and change no document of Meta.index, so that get on Meta.index
\* answers for every id as it did before
C25_ExplicitIndex ==
    [][ret'.op \in {"save", "get", "delete"} =>
          /\ ret'.idx = IF ret'.arg = Omitted THEN MetaIndex ELSE ret'.arg
          /\ Outside(store', ret'.idx) = Outside(store, ret'.idx)
          /\ ret'.op = "get" =>
                 ret'.rec = GetDoc(store \ Outside(store, ret'.idx),
                                   ret'.val, ret'.idx).val
          /\ ret'.arg = CustomIndex =>
                 \A id \in ReadIds :
                     GetDoc(store', id, MetaIndex)
                         = GetDoc(store, id, MetaIndex)]_vars

\* a record saved to both indices and then deleted from the one named by
\* the caller: its document in Meta.index is still there
C25_Witness ==
    /\ ret.op = "delete" /\ ret.status = "ok"
    /\ ret.arg = CustomIndex
    /\ Has(store, MetaIndex, ret.val)
    /\ ~Has(store, CustomIndex, ret.val)
    /\ FromEs(Hit(store, MetaIndex, ret.val)) = records[ret.args[1]]

\* bulk_index returned one identifier per body, the i-th that of the
\* document created from the i-th body
IdsInOrder ==
    /\ ret.status = "ok"
    /\ Len(ret.out["index"]) = Len(ret.args)
    /\ \A i \in 1..Len(ret.args) :
           /\ \E d \in store :
                  /\ d.idx = MetaIndex /\ d.id = ret.out["index"][i]
                  /\ d.body = ret.args[i]
           /\ ret.items[i].id = ret.out["index"][i]
           /\ ret.items[i].uid = ret.acts[i].uid
           /\ \A j \in 1..Len(ret.args) :
                  j /= i => ret.out["index"][j] /= ret.out["index"][i]

\* bulk_index buffered one index mutation per body, in order, for Meta.index
OnePerBody ==
    /\ Len(ret.acts) = Len(ret.args)
    /\ \A i \in 1..Len(ret.args) :
           /\ ret.acts[i].kind = "index"
           /\ ret.acts[i].idx = MetaIndex
           /\ ret.acts[i].body = ret.args[i]
           /\ ret.acts[i].uid \in Range(ret.sent)

\* C26: ESModel.bulk_index(records) enqueues one index mutation per record
\* against Meta.index, commits them with refresh enabled and, unless the
\* transport fails, returns exactly len(records) identifiers, the i-th
\* identifying the document created from records[i]
C26_BulkIndexIds ==
    (ret.op = "bulk_index" /\ ret.status /= "ApiError") =>
        /\ OnePerBody
        /\ ret.args /= <<>> => ret.refresh = "true"
        /\ IdsInOrder

\* the same for a collection that is not empty
BulkIndexNonEmpty ==
    (ret.op = "bulk_index" /\ ret.status /= "ApiError"
     /\ ret.args /= <<>>) =>
        (OnePerBody /\ ret.refresh = "true" /\ IdsInOrder)

\* the encoding of a refresh choice: None, True, False
Encoded(choice) ==
    CASE choice = "None" -> "wait_for"
      [] choice = "True" -> "true"
      [] choice = "False" -> "false"

\* C27: save, delete and Session.commit send the caller's refresh choice
\* encoded as "wait_for" (None), "true" or "false"; for commit the choice is
\* the refresh argument passed to commit, whatever the session was created
\* with
C27_RefreshEncodesChoice ==
    (ret.op \in {"save", "delete", "commit"} /\ ret.refresh /= "none") =>
        ret.refresh = Encoded(ret.asked)

\* save and delete send the encoding of their refresh argument
SingleRefreshEncoded ==
    (ret.op \in {"save", "delete"} /\ ret.refresh /= "none") =>
        ret.refresh = Encoded(ret.asked)

\* a declaration the claim says must fail: no Meta of its own, or, unless
\* its own Config marks it abstract, a Meta without an index name
MustFail(d) ==
    \/ d.meta = "absent"
    \/ d.meta \in {"noindex", "empty"} /\ d.config /= "abstract"

\* C29: declaring a type that has no Meta of its own, or whose Meta has no
\* index name, raises NotImplementedError at the class statement, so that no
\* instance of it is ever constructed; a type whose own Config marks it
\* abstract passes without an index name
C29_DeclarationErrors ==
    /\ \A d \in classes : ~MustFail(d)
    /\ ret.op = "declare" /\ MustFail(ret.decl) =>
           ret.status = "NotImplementedError"
    /\ (ret.op = "declare" /\ ret.decl.config = "abstract"
        /\ ret.decl.meta /= "absent") =>
           (ret.status = "ok" /\ ret.decl \in classes)
    /\ ret.op = "construct" => ~MustFail(ret.decl)

C29_Witness ==
    /\ ret.op = "declare"
    /\ ret.decl = [meta |-> "noindex", config |-> "concrete"]
    /\ ret.status = "NotImplementedError"
    /\ [meta |-> "noindex", config |-> "abstract"] \in classes
    /\ [meta |-> "absent", config |-> "abstract"] \notin classes

\* the store calls of migrate(move_data, update_alias), in order
MigrateCalls(l) ==
    <<"create">>
    \o (IF l.move THEN <<"reindex", "refresh">> ELSE <<>>)
    \o (IF l.upd THEN <<"update_aliases">> ELSE <<>>)

\* the calls of a trace from its indices.create on
RECURSIVE FromCreate(_)
FromCreate(trace) ==
    IF trace = <<>> \/ Head(trace) = "create" THEN trace
    ELSE FromCreate(Tail(trace))

IsPrefix(p, q) == Len(p) <= Len(q) /\ SubSeq(q, 1, Len(p)) = p

\* the calls a migrate has issued are the first calls of its fixed order,
\* all of them when it returned, and it returned the index it created
MigrateInOrder(l) ==
    /\ IsPrefix(FromCreate(l.trace), MigrateCalls(l))
    /\ l.status = "ok" /\ "create" \in Range(l.trace) =>
           FromCreate(l.trace) = MigrateCalls(l)
    /\ l.op = "migrate" /\ l.status = "ok" =>
           /\ l.returned = l.next
           /\ l.next /= NoIndex

\* task t repoints the alias in this step
Repoints(t) ==
    /\ pc[t] = "update_aliases"
    /\ loc'[t].status \in {"run", "ok"}
    /\ Len(loc'[t].trace) = Len(loc[t].trace) + 1

\* C30: migrate issues create, then (move_data) reindex and refresh, then
\* (update_alias) the alias update, so when it repoints the alias with
\* move_data the new index already holds, after a refresh, every document
\* the reindex read through the alias; migrate returns the created index
C30_MigrateOrder ==
    [][/\ \A t \in Tasks : MigrateInOrder(loc'[t])
       /\ \A t \in Tasks : (Repoints(t) /\ loc[t].move) =>
              /\ loc[t].trace[Len(loc[t].trace)] = "refresh"
              /\ loc[t].trace[Len(loc[t].trace) - 1] = "reindex"
              /\ \A d \in loc[t].copied : <<loc[t].next, d>> \in held
              /\ alias' = {loc[t].next}]_vars

C30_Witness ==
    \E t \in Tasks :
        /\ loc[t].op = "migrate" /\ loc[t].status = "ok"
        /\ loc[t].move /\ loc[t].upd
        /\ loc[t].copied /= {}
        /\ loc[t].trace = <<"create", "reindex", "refresh", "update_aliases">>
        /\ alias = {loc[t].next}
        /\ \A d \in loc[t].copied : <<loc[t].next, d>> \in held

\* the answers of the store, in the order in which it gave them
Answers == 1..Len(ret.items)

\* no later accepted action of the batch wrote or removed the same document
LastAccepted(j) ==
    \A k \in Answers :
        (k > j /\ ret.items[k].ok) =>
            (ret.items[k].idx /= ret.items[j].idx
             \/ ret.items[k].id /= ret.items[j].id)

\* the effect of the accepted answer j is what the store holds
StaysApplied(j) ==
    LET it == ret.items[j]
    IN IF it.kind = "delete" THEN ~Has(store, it.idx, it.id)
       ELSE [idx |-> it.idx, id |-> it.id, body |-> ActOf(it.uid).body]
                \in store

\* the errors of a SessionError are answers of the store to failed actions
\* of the batch, each filed under the kind of its action
OnlyFailures ==
    /\ \E k \in Kinds : ret.errors[k] /= <<>>
    /\ \A k \in Kinds : \A i \in 1..Len(ret.errors[k]) :
           /\ ~ret.errors[k][i].ok
           /\ ret.errors[k][i].kind = k
           /\ ret.errors[k][i] \in Range(ret.items)
           /\ ActOf(ret.errors[k][i].uid).kind = k

\* C31: when commit raises SessionError, every mutation of the batch that
\* the store accepted stays applied (nothing is rolled back), and the error
\* carries only failed mutations, grouped by operation kind
C31_NoRollback ==
    (ret.op = "commit" /\ ret.status = "SessionError") =>
        /\ OnlyFailures
        /\ \A j \in Answers :
               (ret.items[j].ok /\ LastAccepted(j)) => StaysApplied(j)

C31_Witness ==
    /\ ret.op = "commit" /\ ret.status = "SessionError"
    /\ \E j, k \in Answers :
           /\ ret.items[j].ok /\ ret.items[j].kind = "create"
           /\ LastAccepted(j) /\ StaysApplied(j)
           /\ ~ret.items[k].ok /\ ret.items[k] \in Range(ret.errors["delete"])

\* the enqueue call that first gave kind k a mutation in the buffer sent
FirstOf(k) ==
    CHOOSE u \in {a.uid : a \in {b \in Range(ret.acts) : b.kind = k}} :
        \A a \in Range(ret.acts) : a.kind = k => u <= a.uid

\* action a is sent before action b by a commit that groups by kind
GroupedBefore(a, b) ==
    IF a.kind = b.kind THEN a.uid < b.uid
    ELSE FirstOf(a.kind) < FirstOf(b.kind)

\* C32: commit submits the buffered mutations grouped by kind, the kinds in
\* the order in which each first received a mutation in the buffer and in
\* insertion order inside a kind; the order is not the global enqueue order
\* (C32_Witness: delete(x) enqueued between two create(x) is sent last)
C32_GroupedByKind ==
    (ret.op = "commit" /\ ret.sent /= <<>>) =>
        /\ \A i \in 1..Len(ret.sent) :
               \E a \in Range(ret.acts) : a.uid = ret.sent[i]
        /\ \A i, j \in 1..Len(ret.sent) :
               i < j => GroupedBefore(ActOf(ret.sent[i]), ActOf(ret.sent[j]))

C32_Witness ==
    /\ ret.op = "commit" /\ Len(ret.sent) = 3
    /\ ret.sent[1] < ret.sent[3] /\ ret.sent[3] < ret.sent[2]
    /\ ActOf(ret.sent[1]).kind = "create"
    /\ ActOf(ret.sent[2]).kind = "create"
    /\ ActOf(ret.sent[3]).kind = "delete"
    /\ ActOf(ret.sent[1]).id = ActOf(ret.sent[3]).id
    /\ ActOf(ret.sent[2]).id = ActOf(ret.sent[3]).id
    /\ ActOf(ret.sent[1]).idx = ActOf(ret.sent[3]).idx
    /\ ActOf(ret.sent[2]).idx = ActOf(ret.sent[3]).idx

\* task t makes the last store call of a migrate(move_data=true,
\* update_alias=true) that returns normally
MigrateReturns(t) ==
    /\ pc[t] = "update_aliases" /\ pc'[t] = "done"
    /\ loc[t].move /\ loc[t].upd
    /\ loc'[t].status = "ok"

\* C33: a document saved through the logical name before
\* migrate(move_data=true, update_alias=true) returns can still be read
\* through the logical name when the migrate has returned, whenever the
\* save was made, also between the reindex and the alias update
C33_SavedSurvivesMigrate ==
    [][\A t \in Tasks :
          MigrateReturns(t) =>
              Readable(alias, held) \subseteq Readable(alias', held')]_vars

\* the documents read through the alias when the reindex ran survive
CopiedSurviveMigrate ==
    [][\A t \in Tasks :
          MigrateReturns(t) =>
              (loc[t].copied \cap Readable(alias, held))
                  \subseteq Readable(alias', held')]_vars

\* the second call on the logical index is a setup with force_migrate=false
\* that found the template in place: only a setup uploads it, so the first
\* call was a setup, made when no physical index existed, and it returned
\* normally (calls are made one after the other)
SecondSetup ==
    /\ ncalls = 2
    /\ loc[1].op = "setup" /\ ~loc[1].force /\ loc[1].sawTpl

\* the call of task 1 has created no index and changed neither the
\* template nor the alias
NothingChanged ==
    /\ Range(loc[1].trace) \subseteq {"exists_index_template", "exists"}
    /\ Cardinality(phys) = 1
    /\ alias = loc[1].before

\* C34: after one successful setup() on a logical index without physical
\* index, whatever its move_data and update_alias, a second setup() with
\* force_migrate=false creates no physical index and changes neither the
\* template nor the alias
C34_SetupIdempotent == SecondSetup => NothingChanged

\* the same when the first setup bound the alias (update_alias=true)
SetupIdempotentWhenBound ==
    (SecondSetup /\ loc[1].before /= {}) => NothingChanged

\* a bulk_index of nothing returned without a request to the store
ReturnedUntouched ==
    /\ ret.status = "ok"
    /\ ret.calls = 0
    /\ ret.out["index"] = <<>>

\* C35: bulk-indexing an empty collection returns an empty result without
\* contacting the store and without raising, through ESModel.bulk_index
\* and through session.model.bulk_index
C35_EmptyBulkIndex ==
    (ret.op \in {"bulk_index", "model.bulk_index"} /\ ret.args = <<>>) =>
        ReturnedUntouched

\* C36: entering the scope empties the buffer: the mutations that were
\* buffered at an entry, enqueued before the first entry or left over from
\* an earlier scope, are gone from the buffer and no commit submits them
C36_EntryDropsBuffer ==
    /\ stale \cap submitted = {}
    /\ stale \cap Buffered = {}
    /\ ret.op = "enter" => (actions = EmptyMap /\ kindOrder = <<>>)

\* a mutation was buffered when the scope was entered, and a commit inside
\* the scope sent what was enqueued there and not that mutation
C36_Witness ==
    /\ ret.op = "commit" /\ ret.status = "ok"
    /\ stale /= {}
    /\ Range(ret.sent) /= {}
    /\ \A u \in stale : u \notin Range(ret.sent)

====
